---- MODULE Spec2Model ----
(***************************************************************************)
(* FeyScan backend monitor (backend/src/monitor.js, storage.js).           *)
(*                                                                         *)
(* The module holds several specifications over one set of variables:    *)
(*   SpecStore   - extraction of deployments into the store, with a       *)
(*                 polling cycle and a manual backfill interleaving       *)
(*   SpecLoop    - monitorLoop / checkForNewDeployments and the cycle     *)
(*                 timeout                                                 *)
(*   SpecGateway - smartGetLogs / smartRpcCall / getLogsInChunks          *)
(*   SpecSched   - updateHolderCounts: selection, volume and holder       *)
(*                 refresh                                                 *)
(*   SpecSelect  - the selection of updateHolderCounts applied to stores  *)
(*                 of up to MaxSeed deployments                            *)
(*   SpecLoopLive - SpecLoop with its timers firing                       *)
(*   SpecRefresh - one updateHolderCounts cycle on a token of each kind,  *)
(*                 with the dev checks and a second extraction            *)
(*   SpecCrowd   - one updateHolderCounts cycle on a store of more than   *)
(*                 twenty eligible tokens                                  *)
(*   SpecArchive - extraction into a store that holds MAX_ENTRIES records *)
(*   SpecScan    - one polling cycle with its log fetches going through   *)
(*                 the gateway                                             *)
(*   SpecEvents  - checkTokenCreatedEvents over a backlog of blocks       *)
(* Each specification leaves unchanged the variables it does not model.  *)
(***************************************************************************)
EXTENDS Integers, Sequences, FiniteSets, TLC

VARIABLES
    deployments,    \* the store: sequence of deployment records, most recent first
    procPc,         \* per extracting process: position in processTransaction/extractAndStoreDeployment
    procTx,         \* per extracting process: the transaction in hand
    procExisting,   \* per extracting process: `existing` snapshot read by extractAndStoreDeployment
    lastCheckedBlock,       \* monitor.js module variable (0 stands for null)
    isMonitoring,           \* monitor.js module variable
    CATCH_UP_MODE,          \* monitor.js module variable
    POLL_INTERVAL,          \* monitor.js module variable (milliseconds)
    catchUpLowWorkCycles,   \* monitor.js module variable
    savedState,     \* the persisted monitor state, as last written by saveMonitorState
    chainHead,      \* block number the ledger node reports
    advances,       \* number of times the chain head has moved (bounded)
    loopPc,         \* monitorLoop: "off", "racing" (awaiting Promise.race), "sleeping" (setTimeout pending)
    loopRun,        \* the checkForNewDeployments run the loop is racing against its timeout
    runs,           \* every checkForNewDeployments run started so far
    consecutiveRateLimits,  \* monitor.js module variable
    lastRateLimitHit,       \* monitor.js module variable (time of the last throttle)
    paidKey,        \* providerPaid && ALCHEMY_API_KEY_PAID
    gw,             \* the smartGetLogs call in progress, or the last one
    gwCalls,        \* number of smartGetLogs calls made (bounded)
    gwAttempts,     \* requests sent to the backends so far; the gateway's clock
    now,            \* the wall clock, in seconds
    ticks,          \* number of times the clock has moved (bounded)
    chainHolders,   \* per transaction: addresses seen so far in its token's Transfer logs
    cyc,            \* updateHolderCounts: position of the run in progress
    cycles,         \* number of updateHolderCounts runs started (bounded)
    sel,            \* what the last run of updateHolderCounts selected
    lastOp          \* the step taken last, with the answers it got

storeVars == <<deployments, procPc, procTx, procExisting>>

loopVars == <<lastCheckedBlock, isMonitoring, CATCH_UP_MODE, POLL_INTERVAL,
              catchUpLowWorkCycles, savedState, chainHead, advances,
              loopPc, loopRun, runs>>

gwVars == <<consecutiveRateLimits, lastRateLimitHit, paidKey, gw, gwCalls, gwAttempts>>

schedVars == <<now, ticks, chainHolders, cyc, cycles, sel, lastOp>>

notStore == <<loopVars, gwVars, schedVars>>
notLoop == <<storeVars, gwVars, schedVars>>
notGateway == <<storeVars, loopVars, schedVars>>

(***************************************************************************)
(* Values                                                                  *)
(***************************************************************************)
\* the tokenAddress 'N/A'; token addresses are positive numbers
NoAddress == 0

\* The transactions to the factory that the scanned ranges contain.
MaxTx == 3
Txs == 1..MaxTx

\* receipt-derived token address of a transaction: transactions 1 and 2 emit
\* logs of the same token contract, the last transaction resolves no address.
TokenOf(tx) ==
    IF tx = MaxTx THEN NoAddress
    ELSE IF tx <= 2 THEN 1 ELSE tx - 1

BlockOf(tx) == 1000 + tx
TimeOf(tx) == 100000 + 2 * tx

\* holders found in the creation receipt's own Transfer logs
ReceiptHolders(tx) == IF TokenOf(tx) = NoAddress THEN 0 ELSE tx

Procs == {"cycle", "backfill"}

(***************************************************************************)
(* storage.js                                                              *)
(***************************************************************************)
MAX_ENTRIES == 1000

HasTxHash(ds, h) == \E i \in 1..Len(ds) : ds[i].txHash = h

HasTokenAddress(ds, a) == \E i \in 1..Len(ds) : ds[i].tokenAddress = a

\* addDeployment without the txHash check
addDeploymentNoCheck(ds, d) ==
    LET all == <<d>> \o ds
    IN IF Len(all) > MAX_ENTRIES THEN SubSeq(all, 1, MAX_ENTRIES) ELSE all

\* addDeployment: refuse a known txHash, else unshift and keep MAX_ENTRIES
addDeployment(ds, d) ==
    IF HasTxHash(ds, d.txHash) THEN ds
    ELSE LET all == <<d>> \o ds
         IN IF Len(all) > MAX_ENTRIES THEN SubSeq(all, 1, MAX_ENTRIES) ELSE all

\* the deployment object built by extractAndStoreDeployment
NewDeployment(tx) ==
    [ txHash |-> tx,
      tokenAddress |-> TokenOf(tx),
      blockNumber |-> BlockOf(tx),
      timestamp |-> TimeOf(tx),
      holderCount |-> ReceiptHolders(tx),
      holderCountHistory |-> << [count |-> ReceiptHolders(tx), timestamp |-> TimeOf(tx)] >>,
      lastHolderCheck |-> 0,
      volume1h |-> 0, volume6h |-> 0, volume24h |-> 0, volume7d |-> 0,
      volumeHistory |-> << >>,
      marketCap |-> 0,
      devBuyAmount |-> 0,
      devSold |-> FALSE,
      devTransferCount |-> 0,
      isPruned |-> FALSE ]

(***************************************************************************)
(* processTransaction / checkTokenCreatedEvents / extractAndStoreDeployment*)
(***************************************************************************)
\* A scan (cycle, startup backfill or manual backfill) hands a transaction of
\* its range to processTransaction; the same range may be scanned again.
ProcessTransaction(p, tx) ==
    /\ procPc[p] = "idle"
    /\ procTx' = [procTx EXCEPT ![p] = tx]
    /\ procPc' = [procPc EXCEPT ![p] =
          IF HasTxHash(deployments, tx) THEN "idle"
          ELSE IF TokenOf(tx) # NoAddress /\ HasTokenAddress(deployments, TokenOf(tx))
               THEN "idle"
          ELSE "extract"]
    /\ UNCHANGED <<deployments, procExisting>>

\* extractAndStoreDeployment, up to its first await after the txHash check
ExtractCheck(p) ==
    /\ procPc[p] = "extract"
    /\ procExisting' = [procExisting EXCEPT ![p] = deployments]
    /\ procPc' = [procPc EXCEPT ![p] =
          IF HasTxHash(deployments, procTx[p]) THEN "idle" ELSE "resolved"]
    /\ UNCHANGED <<deployments, procTx>>

\* extractAndStoreDeployment, from the token-address check to addDeployment
ExtractStore(p) ==
    /\ procPc[p] = "resolved"
    /\ LET tx == procTx[p]
           dup == TokenOf(tx) # NoAddress
                  /\ HasTokenAddress(procExisting[p], TokenOf(tx))
       IN deployments' = IF dup THEN deployments
                         ELSE addDeployment(deployments, NewDeployment(tx))
    /\ procPc' = [procPc EXCEPT ![p] = "idle"]
    /\ procExisting' = [procExisting EXCEPT ![p] = << >>]
    /\ UNCHANGED procTx

vars == <<storeVars, loopVars, gwVars, schedVars>>

(***************************************************************************)
(* monitor.js: startMonitoring, monitorLoop, checkForNewDeployments        *)
(***************************************************************************)
MAX_BLOCK_RANGE == 2000
CATCH_UP_AUTO_DISABLE_THRESHOLD == 2
FastPoll == 100
SlowPoll == 90000

\* bounds of the loop model
MaxRuns == 3
MaxAdvances == 2
GenesisHead == 5000
BlockSteps == {7, 2100}
WorkLevels == {0, 2, 3}

Min(a, b) == IF a < b THEN a ELSE b
Max(a, b) == IF a > b THEN a ELSE b

\* values of the catchUpComplete field of the state file
Absent == "absent"
BoolField(b) == IF b THEN "true" ELSE "false"

\* saveMonitorState (storage.js): the state file is replaced by the object given
saveMonitorState(state) == state

\* fetch is the log fetch the run is at; events and logs are the blocks whose
\* TokenCreated logs and contract logs the run has received
NewRun == [pc |-> "head", fromBlock |-> 0, toBlock |-> 0, actualToBlock |-> 0,
           timedOut |-> FALSE, fetch |-> "none", events |-> {}, logs |-> {}]

Executing(r) == runs[r].pc # "done"

\* monitorLoop left where it is when the run it awaits settles
LoopAfterUnscheduled(r) == loopPc

\* the continuation of monitorLoop when the run it awaits settles
LoopAfter(r) == IF loopPc = "racing" /\ loopRun = r THEN "sleeping" ELSE loopPc

\* startMonitoring, successful path: it ends by calling monitorLoop(), which
\* starts the first checkForNewDeployments run
StartMonitoring ==
    /\ loopPc \in {"off", "retry"}
    /\ ~isMonitoring
    /\ LET resumed == savedState.lastCheckedBlock # 0
           last == IF resumed THEN savedState.lastCheckedBlock ELSE chainHead
           done == savedState.catchUpComplete = BoolField(TRUE)
           mode == IF done THEN FALSE ELSE CATCH_UP_MODE
       IN /\ lastCheckedBlock' = last
          /\ CATCH_UP_MODE' = mode
          /\ POLL_INTERVAL' = IF done THEN SlowPoll ELSE POLL_INTERVAL
          /\ savedState' = saveMonitorState([lastCheckedBlock |-> last,
                                             catchUpComplete |-> BoolField(~mode)])
    /\ isMonitoring' = TRUE
    /\ runs' = Append(runs, NewRun)
    /\ loopRun' = Len(runs) + 1
    /\ loopPc' = "racing"
    /\ UNCHANGED <<catchUpLowWorkCycles, chainHead, advances>>

\* a failure that leaves startMonitoring without a retry
StartMonitoringGivesUp ==
    /\ loopPc \in {"off", "retry"}
    /\ ~isMonitoring
    /\ loopPc' = "failed"
    /\ UNCHANGED <<lastCheckedBlock, isMonitoring, CATCH_UP_MODE, POLL_INTERVAL,
                   catchUpLowWorkCycles, savedState, chainHead, advances, loopRun,
                   runs>>

\* startMonitoring, failing path: getBlockNumber throws before anything is
\* written; the catch block arms setTimeout(startMonitoring, 5000)
StartMonitoringFails ==
    /\ loopPc \in {"off", "retry"}
    /\ ~isMonitoring
    /\ loopPc' = "retry"
    /\ UNCHANGED <<lastCheckedBlock, isMonitoring, CATCH_UP_MODE, POLL_INTERVAL,
                   catchUpLowWorkCycles, savedState, chainHead, advances, loopRun,
                   runs>>

\* monitorLoop called by its setTimeout: a new cycle starts
MonitorLoop ==
    /\ loopPc = "sleeping"
    /\ isMonitoring
    /\ Len(runs) < MaxRuns
    /\ runs' = Append(runs, NewRun)
    /\ loopRun' = Len(runs) + 1
    /\ loopPc' = "racing"
    /\ UNCHANGED <<lastCheckedBlock, isMonitoring, CATCH_UP_MODE, POLL_INTERVAL,
                   catchUpLowWorkCycles, savedState, chainHead, advances>>

\* the timeout branch of Promise.race rejects: monitorLoop logs and schedules
\* the next cycle; the run it raced is not cancelled
CycleTimeout ==
    /\ loopPc = "racing"
    /\ Executing(loopRun)
    /\ runs' = [runs EXCEPT ![loopRun].timedOut = TRUE]
    /\ loopPc' = "sleeping"
    /\ UNCHANGED <<lastCheckedBlock, isMonitoring, CATCH_UP_MODE, POLL_INTERVAL,
                   catchUpLowWorkCycles, savedState, chainHead, advances, loopRun>>

\* a range that starts one block after lastCheckedBlock + 1
RunReadHeadSkipsBlock(r) ==
    /\ runs[r].pc = "head"
    /\ LET currentBlock == chainHead
           fromBlock == IF lastCheckedBlock # 0 THEN lastCheckedBlock + 2
                        ELSE currentBlock - 50
           toBlock == currentBlock
           actualToBlock == Min(fromBlock + MAX_BLOCK_RANGE - 1, toBlock)
       IN IF fromBlock > toBlock
          THEN /\ runs' = [runs EXCEPT ![r].pc = "done"]
               /\ loopPc' = LoopAfter(r)
          ELSE /\ runs' = [runs EXCEPT ![r] =
                        [@ EXCEPT !.pc = "scan", !.fromBlock = fromBlock,
                                  !.toBlock = toBlock,
                                  !.actualToBlock = actualToBlock]]
               /\ loopPc' = loopPc
    /\ UNCHANGED <<lastCheckedBlock, isMonitoring, CATCH_UP_MODE, POLL_INTERVAL,
                   catchUpLowWorkCycles, savedState, chainHead, advances, loopRun>>

\* checkForNewDeployments: getBlockNumber answers; the range is fixed
RunReadHead(r) ==
    /\ runs[r].pc = "head"
    /\ LET currentBlock == chainHead
           fromBlock == IF lastCheckedBlock # 0 THEN lastCheckedBlock + 1
                        ELSE currentBlock - 50
           toBlock == currentBlock
           actualToBlock == Min(fromBlock + MAX_BLOCK_RANGE - 1, toBlock)
       IN IF fromBlock > toBlock
          THEN /\ runs' = [runs EXCEPT ![r].pc = "done"]
               /\ loopPc' = LoopAfter(r)
          ELSE /\ runs' = [runs EXCEPT ![r] =
                        [@ EXCEPT !.pc = "scan", !.fromBlock = fromBlock,
                                  !.toBlock = toBlock,
                                  !.actualToBlock = actualToBlock]]
               /\ loopPc' = loopPc
    /\ UNCHANGED <<lastCheckedBlock, isMonitoring, CATCH_UP_MODE, POLL_INTERVAL,
                   catchUpLowWorkCycles, savedState, chainHead, advances, loopRun>>

\* checkForNewDeployments: getBlockNumber throws; the catch block ends the run
RunHeadFails(r) ==
    /\ runs[r].pc = "head"
    /\ runs' = [runs EXCEPT ![r].pc = "done"]
    /\ loopPc' = LoopAfter(r)
    /\ UNCHANGED <<lastCheckedBlock, isMonitoring, CATCH_UP_MODE, POLL_INTERVAL,
                   catchUpLowWorkCycles, savedState, chainHead, advances, loopRun>>

\* updateHolderCounts, the catch-up bookkeeping: [mode, poll, low, saved]
CatchUpStep(eligible, totalWork) ==
    LET same == [mode |-> CATCH_UP_MODE, poll |-> POLL_INTERVAL,
                 low |-> catchUpLowWorkCycles, saved |-> savedState]
    IN IF ~eligible \/ ~CATCH_UP_MODE THEN same
       ELSE IF totalWork <= 2
            THEN IF catchUpLowWorkCycles + 1 >= CATCH_UP_AUTO_DISABLE_THRESHOLD
                 THEN [mode |-> FALSE, poll |-> SlowPoll, low |-> 0,
                       saved |-> saveMonitorState(
                                   [lastCheckedBlock |-> lastCheckedBlock,
                                    catchUpComplete |-> BoolField(TRUE)])]
                 ELSE [same EXCEPT !.low = catchUpLowWorkCycles + 1]
            ELSE [same EXCEPT !.low = 0]

\* checkForNewDeployments from the scan to the end of updateHolderCounts
RunEnrich(r, eligible, totalWork) ==
    /\ runs[r].pc = "scan"
    /\ LET c == CatchUpStep(eligible, totalWork)
       IN /\ CATCH_UP_MODE' = c.mode
          /\ POLL_INTERVAL' = c.poll
          /\ catchUpLowWorkCycles' = c.low
          /\ savedState' = c.saved
    /\ runs' = [runs EXCEPT ![r].pc = "commit"]
    /\ UNCHANGED <<lastCheckedBlock, isMonitoring, chainHead, advances,
                   loopPc, loopRun>>

\* lastCheckedBlock = actualToBlock
RunCommit(r) ==
    /\ runs[r].pc = "commit"
    /\ lastCheckedBlock' = runs[r].actualToBlock
    /\ runs' = [runs EXCEPT ![r].pc = "saving"]
    /\ UNCHANGED <<isMonitoring, CATCH_UP_MODE, POLL_INTERVAL, catchUpLowWorkCycles,
                   savedState, chainHead, advances, loopPc, loopRun>>

\* await saveMonitorState({ lastCheckedBlock }); the run returns
RunSave(r) ==
    /\ runs[r].pc = "saving"
    /\ savedState' = saveMonitorState([lastCheckedBlock |-> runs[r].actualToBlock,
                                       catchUpComplete |-> Absent])
    /\ runs' = [runs EXCEPT ![r].pc = "done"]
    /\ loopPc' = LoopAfter(r)
    /\ UNCHANGED <<lastCheckedBlock, isMonitoring, CATCH_UP_MODE, POLL_INTERVAL,
                   catchUpLowWorkCycles, chainHead, advances, loopRun>>

\* the ledger grows
ChainAdvance(d) ==
    /\ advances < MaxAdvances
    /\ chainHead' = chainHead + d
    /\ advances' = advances + 1
    /\ UNCHANGED <<lastCheckedBlock, isMonitoring, CATCH_UP_MODE, POLL_INTERVAL,
                   catchUpLowWorkCycles, savedState, loopPc, loopRun, runs>>

(***************************************************************************)
(* monitor.js: smartGetLogs, smartRpcCall, getLogsInChunks                 *)
(***************************************************************************)
FREE_TIER_MAX_BLOCK_RANGE == 10
RPC_RETRIES == 2
CHUNK_RETRIES == 3

\* bounds of the gateway model
MaxCalls == 2
GwFrom == 100
\* number of blocks of the requested ranges
GwWidths == {5, 11, 25}

\* what a backend answers to one request: the logs, an error whose text
\* holds "429", an error with another throttling text (quota, exceeded,
\* block range), any other error, or no answer before the deadline
Outcomes == {"ok", "429", "quota", "error", "timeout"}

isRateLimit(o) == o \in {"429", "quota"}

IdleCall == [status |-> "idle", fromBlock |-> 0, toBlock |-> 0, retries |-> 0,
             tier |-> "free", blockNum |-> 0, chunkRetries |-> 0,
             chunks |-> << >>, sent |-> {}, freeAttempts |-> 0,
             paidAttempts |-> 0, lastOutcome |-> "none", lastDelay |-> 0]

\* smartGetLogs: range small enough for one call
Direct(g) == g.toBlock - g.fromBlock <= FREE_TIER_MAX_BLOCK_RANGE

\* getLogsInChunks: end of the chunk that starts at blockNum
EndBlock(g) == Min(g.blockNum + FREE_TIER_MAX_BLOCK_RANGE - 1, g.toBlock)

\* blocks whose logs are in the array a call returned
ResultBlocks(g) ==
    UNION { g.chunks[i][1]..g.chunks[i][2] : i \in 1..Len(g.chunks) }

\* s with one attempt on its current tier counted
Counted(g, a, b, o) ==
    [g EXCEPT !.sent = @ \cup {<<g.tier, a, b>>},
              !.freeAttempts = IF g.tier = "free" THEN @ + 1 ELSE @,
              !.paidAttempts = IF g.tier = "paid" THEN @ + 1 ELSE @,
              !.lastOutcome = o]

\* a caller invokes smartGetLogs(filter, fromBlock, toBlock, { usePaid: false })
GwCall(w) ==
    /\ gw.status # "running"
    /\ gwCalls < MaxCalls
    /\ gwCalls' = gwCalls + 1
    /\ gw' = [IdleCall EXCEPT !.status = "running", !.fromBlock = GwFrom,
                              !.toBlock = GwFrom + w - 1, !.retries = RPC_RETRIES,
                              !.blockNum = GwFrom, !.chunkRetries = CHUNK_RETRIES]
    /\ UNCHANGED <<consecutiveRateLimits, lastRateLimitHit, paidKey, gwAttempts>>

\* a smartRpcCall whose nested call gets the same number of retries
GwDirectKeepsRetries(o) ==
    /\ gw.status = "running"
    /\ Direct(gw)
    /\ gwAttempts' = gwAttempts + 1
    /\ LET g == Counted(gw, gw.fromBlock, gw.toBlock, o)
           c == consecutiveRateLimits + 1
       IN IF o = "ok"
          THEN /\ gw' = [g EXCEPT !.status = "returned",
                                  !.chunks = << <<gw.fromBlock, gw.toBlock>> >>]
               /\ UNCHANGED <<consecutiveRateLimits, lastRateLimitHit>>
          ELSE IF gw.tier = "free"
          THEN IF isRateLimit(o)
               THEN /\ lastRateLimitHit' = gwAttempts'
                    /\ consecutiveRateLimits' = c
                    /\ gw' = IF paidKey /\ gw.retries > 0
                             THEN [g EXCEPT !.tier = "paid",
                                            !.lastDelay = Min(c * 1000, 5000)]
                             ELSE [g EXCEPT !.status = "thrown",
                                            !.lastDelay = Min(c * 2000, 10000)]
               ELSE /\ gw' = [g EXCEPT !.status = "thrown"]
                    /\ UNCHANGED <<consecutiveRateLimits, lastRateLimitHit>>
          ELSE /\ gw' = IF o = "429" /\ gw.retries > 0
                        THEN [g EXCEPT !.tier = "free",
                                 !.lastDelay = Min(consecutiveRateLimits * 2000, 10000)]
                        ELSE [g EXCEPT !.status = "thrown"]
               /\ UNCHANGED <<consecutiveRateLimits, lastRateLimitHit>>
    /\ UNCHANGED paidKey

\* smartRpcCall around a single provider.getLogs over the whole range
GwDirect(o) ==
    /\ gw.status = "running"
    /\ Direct(gw)
    /\ gwAttempts' = gwAttempts + 1
    /\ LET g == Counted(gw, gw.fromBlock, gw.toBlock, o)
           c == consecutiveRateLimits + 1
       IN IF o = "ok"
          THEN /\ gw' = [g EXCEPT !.status = "returned",
                                  !.chunks = << <<gw.fromBlock, gw.toBlock>> >>]
               /\ UNCHANGED <<consecutiveRateLimits, lastRateLimitHit>>
          ELSE IF gw.tier = "free"
          THEN IF isRateLimit(o)
               THEN /\ lastRateLimitHit' = gwAttempts'
                    /\ consecutiveRateLimits' = c
                    /\ gw' = IF paidKey /\ gw.retries > 0
                             THEN [g EXCEPT !.tier = "paid",
                                            !.lastDelay = Min(c * 1000, 5000)]
                             ELSE [g EXCEPT !.status = "thrown",
                                            !.lastDelay = Min(c * 2000, 10000)]
               ELSE /\ gw' = [g EXCEPT !.status = "thrown"]
                    /\ UNCHANGED <<consecutiveRateLimits, lastRateLimitHit>>
          ELSE /\ gw' = IF o = "429" /\ gw.retries > 0
                        THEN [g EXCEPT !.tier = "free", !.retries = @ - 1,
                                 !.lastDelay = Min(consecutiveRateLimits * 2000, 10000)]
                        ELSE [g EXCEPT !.status = "thrown"]
               /\ UNCHANGED <<consecutiveRateLimits, lastRateLimitHit>>
    /\ UNCHANGED paidKey

\* g after getLogsInChunks leaves the chunk at blockNum; the array is returned
\* through smartRpcCall once the last chunk is left
NextChunk(g) ==
    IF g.blockNum + FREE_TIER_MAX_BLOCK_RANGE > g.toBlock
    THEN [g EXCEPT !.status = "returned"]
    ELSE [g EXCEPT !.blockNum = @ + FREE_TIER_MAX_BLOCK_RANGE,
                   !.chunkRetries = CHUNK_RETRIES]

\* getLogsInChunks: one provider.getLogs attempt for the current chunk
GwChunk(o) ==
    /\ gw.status = "running"
    /\ ~Direct(gw)
    /\ gwAttempts' = gwAttempts + 1
    /\ LET g == Counted(gw, gw.blockNum, EndBlock(gw), o)
           c == consecutiveRateLimits + 1
       IN IF o = "ok"
          THEN /\ gw' = NextChunk([g EXCEPT !.chunks =
                                      Append(@, <<gw.blockNum, EndBlock(gw)>>)])
               /\ consecutiveRateLimits' = 0
               /\ UNCHANGED lastRateLimitHit
          ELSE IF isRateLimit(o)
          THEN /\ lastRateLimitHit' = gwAttempts'
               /\ consecutiveRateLimits' = c
               /\ gw' = IF gw.chunkRetries - 1 > 0
                        THEN [g EXCEPT !.chunkRetries = @ - 1,
                                       !.lastDelay = Min(c * 2000, 10000)]
                        ELSE NextChunk([g EXCEPT !.chunkRetries = @ - 1,
                                           !.lastDelay = Min(c * 2000, 10000)])
          ELSE /\ gw' = NextChunk(g)
               /\ UNCHANGED <<consecutiveRateLimits, lastRateLimitHit>>
    /\ UNCHANGED paidKey

\* smartRpcCall: the 30 s deadline wins the race against a chunked operation
GwOverallTimeout ==
    /\ gw.status = "running"
    /\ ~Direct(gw)
    /\ gw' = [gw EXCEPT !.status = "thrown", !.lastOutcome = "timeout"]
    /\ UNCHANGED <<consecutiveRateLimits, lastRateLimitHit, paidKey, gwCalls, gwAttempts>>

(***************************************************************************)
(* monitor.js: the log fetches of checkForNewDeployments                   *)
(* (checkTokenCreatedEvents, getTransactionsInRange)                       *)
(***************************************************************************)
RECENT_BLOCK_RANGE == 100

\* number of new blocks a cycle finds
ScanWidths == {5, 12}

\* smartGetLogs(filter, a, b, { usePaid: false }) entered
smartGetLogs(a, b) ==
    [IdleCall EXCEPT !.status = "running", !.fromBlock = a, !.toBlock = b,
                     !.retries = RPC_RETRIES, !.blockNum = a,
                     !.chunkRetries = CHUNK_RETRIES]

\* the blocks whose logs the caller of smartGetLogs holds when the call has
\* ended: those of the array returned, none when the call threw (both callers
\* catch the error and go on without logs)
Fetched(g) == IF g.status = "returned" THEN ResultBlocks(g) ELSE {}

\* numbers of new blocks of a cycle that has a backlog, and the answers of the
\* backend to one request considered for such a cycle
BacklogWidths == {25, 105}
BacklogOutcomes == {"ok", "error"}

\* no trailing window: the scan starts at fromBlock
recentFromBlockNoWindow(run) == run.fromBlock

recentFromBlock(run) == Max(run.fromBlock, run.toBlock - RECENT_BLOCK_RANGE)

\* checkTokenCreatedEvents(fromBlock, toBlock): the fetch of the recent blocks
CheckTokenCreatedEvents(r) ==
    /\ runs[r].pc = "scan"
    /\ runs[r].fetch = "none"
    /\ gw.status # "running"
    /\ gw' = smartGetLogs(recentFromBlock(runs[r]), runs[r].toBlock)
    /\ gwCalls' = gwCalls + 1
    /\ runs' = [runs EXCEPT ![r].fetch = "recent"]
    /\ UNCHANGED <<lastCheckedBlock, isMonitoring, CATCH_UP_MODE, POLL_INTERVAL,
                   catchUpLowWorkCycles, savedState, chainHead, advances, loopPc,
                   loopRun, consecutiveRateLimits, lastRateLimitHit, paidKey,
                   gwAttempts>>

\* checkTokenCreatedEvents: a fetch has ended (result or caught error) and
\* its events are processed. After the recent blocks the older blocks are
\* fetched if there are any, else the whole range once more (the else branch
\* of the test fromBlock < recentFromBlock); after that checkForNewDeployments
\* calls getTransactionsInRange(fromBlock, actualToBlock)
EventsFetched(r) ==
    /\ runs[r].pc = "scan"
    /\ runs[r].fetch \in {"recent", "older", "again"}
    /\ gw.status \in {"returned", "thrown"}
    /\ LET run == runs[r]
           older == run.fromBlock < recentFromBlock(run)
       IN /\ gw' = IF run.fetch # "recent"
                   THEN smartGetLogs(run.fromBlock, run.actualToBlock)
                   ELSE IF older
                   THEN smartGetLogs(run.fromBlock, recentFromBlock(run) - 1)
                   ELSE smartGetLogs(run.fromBlock, run.toBlock)
          /\ runs' = [runs EXCEPT ![r].events = @ \cup Fetched(gw),
                                  ![r].fetch = IF run.fetch # "recent"
                                               THEN "transactions"
                                               ELSE IF older THEN "older"
                                               ELSE "again"]
    /\ gwCalls' = gwCalls + 1
    /\ UNCHANGED <<lastCheckedBlock, isMonitoring, CATCH_UP_MODE, POLL_INTERVAL,
                   catchUpLowWorkCycles, savedState, chainHead, advances, loopPc,
                   loopRun, consecutiveRateLimits, lastRateLimitHit, paidKey,
                   gwAttempts>>

\* getTransactionsInRange: smartGetLogs has ended (result or caught error)
\* and the transactions found are processed
TransactionsFetched(r) ==
    /\ runs[r].pc = "scan"
    /\ runs[r].fetch = "transactions"
    /\ gw.status \in {"returned", "thrown"}
    /\ runs' = [runs EXCEPT ![r].logs = Fetched(gw), ![r].fetch = "done"]
    /\ UNCHANGED <<lastCheckedBlock, isMonitoring, CATCH_UP_MODE, POLL_INTERVAL,
                   catchUpLowWorkCycles, savedState, chainHead, advances, loopPc,
                   loopRun, gwVars>>

(***************************************************************************)
(* monitor.js: updateHolderCounts - eligibility, scoring, selection        *)
(***************************************************************************)
\* MIN_VOLUME_THRESHOLD, 1.0 ETH; volumes are counted in units of 0.01 ETH
MIN_VOLUME_THRESHOLD == 100
HOUR == 3600
CHILL_MODE_COOLDOWN == 300
MAX_BLOCKS_TO_CHECK == 200
\* timeSinceCheck of a token that was never checked
Infinity == 1000000000

Last(s) == s[Len(s)]

\* Array.prototype.slice(a, b) with 0-based bounds
Slice(s, a, b) == SubSeq(s, a + 1, Min(b, Len(s)))

SliceFrom(s, a) == SubSeq(s, a + 1, Len(s))

\* the eligibility filter with the pruning lines left out
IsValidTokenNoPrune(d, ts) ==
    /\ d.tokenAddress # NoAddress
    /\ ~(ts - d.timestamp > HOUR /\ d.volume24h < MIN_VOLUME_THRESHOLD)

\* a filter that does not look at the age of a deployment
IsValidTokenAnyAge(d, ts) ==
    /\ d.tokenAddress # NoAddress
    /\ ~d.isPruned

\* the predicate of deployments.filter(...) that builds validTokens
IsValidToken(d, ts) ==
    /\ d.tokenAddress # NoAddress
    /\ ~(ts - d.timestamp > HOUR /\ d.volume24h < MIN_VOLUME_THRESHOLD)
    /\ ~d.isPruned
    /\ ~(ts - d.timestamp > HOUR /\ d.holderCount <= 5)

\* the prune test without its age condition
MarkedPrunedAnyAge(d, ts) ==
    /\ d.tokenAddress # NoAddress
    /\ ~(ts - d.timestamp > HOUR /\ d.volume24h < MIN_VOLUME_THRESHOLD)
    /\ ~d.isPruned
    /\ d.holderCount <= 5

\* the filter marks a deployment pruned when it reaches the prune test
MarkedPruned(d, ts) ==
    /\ d.tokenAddress # NoAddress
    /\ ~(ts - d.timestamp > HOUR /\ d.volume24h < MIN_VOLUME_THRESHOLD)
    /\ ~d.isPruned
    /\ ts - d.timestamp > HOUR /\ d.holderCount <= 5

LastCheckOf(d) ==
    IF d.lastHolderCheck # 0 THEN d.lastHolderCheck
    ELSE IF Len(d.holderCountHistory) > 0 THEN Last(d.holderCountHistory).timestamp
    ELSE 0

Growth(d) ==
    LET h == d.holderCountHistory
    IN IF Len(h) >= 2 THEN h[Len(h)].count - h[Len(h) - 1].count ELSE 0

Previous(d) ==
    LET h == d.holderCountHistory
    IN IF Len(h) >= 2 THEN h[Len(h) - 1].count ELSE 0

\* the runner score as a fraction ScoreNum / ScoreDen
ScoreNum(d) ==
    LET g == Growth(d)
        p == Previous(d)
    IN IF Len(d.holderCountHistory) < 2 THEN 0
       ELSE IF p > 0
       THEN 2 * d.volume24h * p + 200 * Min(10 * g, 10 * p) + 100 * p * Min(g, 50)
       ELSE 2 * d.volume24h + 100 * Min(g, 50)

ScoreDen(d) ==
    IF Len(d.holderCountHistory) >= 2 /\ Previous(d) > 0 THEN 500 * Previous(d)
    ELSE 500

ScoreAbove(d, x) == ScoreNum(d) > x * ScoreDen(d)

\* App.jsx calculateRunnerScore: the score shown by the dashboard, as a
\* fraction calculateRunnerScoreNum / calculateRunnerScoreDen
calculateRunnerScoreNum(d) ==
    LET h == d.holderCountHistory
        absGrowth == IF Len(h) >= 2 THEN h[Len(h)].count - h[Len(h) - 1].count ELSE 0
        previousCount == IF Len(h) >= 2 THEN h[Len(h) - 1].count ELSE 0
    IN Max(0, IF previousCount > 0
              THEN 2 * d.volume24h * previousCount
                   + 200 * Min(10 * absGrowth, 10 * previousCount)
                   + 100 * previousCount * Min(absGrowth, 50)
              ELSE 2 * d.volume24h
                   + 200 * Min(IF absGrowth > 0 THEN 10 ELSE 0, 10)
                   + 100 * Min(absGrowth, 50))

calculateRunnerScoreDen(d) ==
    LET h == d.holderCountHistory
        previousCount == IF Len(h) >= 2 THEN h[Len(h) - 1].count ELSE 0
    IN IF previousCount > 0 THEN 500 * previousCount ELSE 500

HasActivity(d) ==
    /\ Len(d.holderCountHistory) >= 2
    /\ (Growth(d) > 0 \/ d.volume24h > 0 \/ d.marketCap > 0)

\* every token taken to have data
HasDataAssumed(d) == TRUE

\* hasData
HasData(d) == LastCheckOf(d) # 0 /\ Len(d.holderCountHistory) > 0

IsStale(d, ts, poll) ==
    /\ HasData(d)
    /\ (IF LastCheckOf(d) # 0 THEN (ts - LastCheckOf(d)) \div poll ELSE 0) >= 2

IsTier1(d) == d.marketCap > 10000 \/ d.holderCount > 50 \/ ScoreAbove(d, 1)

\* the priority computed by tokensWithVolume.map(...)
Priority(d, recentVolume, ts, mode, poll) ==
    LET age == ts - d.timestamp
        hasData == HasData(d)
        hasNoData == ~hasData
        isStale == IsStale(d, ts, poll)
        hasActivity == HasActivity(d)
        isTier1 == IsTier1(d)
        g == Growth(d)
        p == Previous(d)
        timeSinceCheck == IF LastCheckOf(d) # 0 THEN ts - LastCheckOf(d) ELSE Infinity
        isVeryNew == age < HOUR
        hasNoActivity == ~hasActivity /\ hasData
        tier1 ==
            IF mode /\ hasNoData THEN 0
            ELSE IF isTier1 /\ ~isStale
            THEN (IF d.marketCap > 100000 THEN 10000
                  ELSE IF d.marketCap > 50000 THEN 5000
                  ELSE IF d.marketCap > 10000 THEN 2000 ELSE 0)
               + (IF d.holderCount > 100 THEN 5000
                  ELSE IF d.holderCount > 50 THEN 2000 ELSE 0)
               + (IF ScoreAbove(d, 5) THEN 5000
                  ELSE IF ScoreAbove(d, 2) THEN 2000
                  ELSE IF ScoreAbove(d, 1) THEN 1000 ELSE 0)
            ELSE IF isTier1 /\ isStale THEN 500
            ELSE 0
        tier2 == IF ~isTier1 /\ hasActivity /\ ~isStale THEN 1000 ELSE 0
        volume ==
            IF recentVolume > 50 THEN 2000
            ELSE IF recentVolume > 20 THEN 1000
            ELSE IF recentVolume > 10 THEN 500
            ELSE IF recentVolume > 5 THEN 200
            ELSE IF recentVolume > 0 THEN 100 ELSE 0
        newness ==
            IF age < 3600 THEN 1000
            ELSE IF age < 7200 THEN 500
            ELSE IF age < 14400 THEN 200 ELSE 0
        growth ==
            IF Len(d.holderCountHistory) >= 2 /\ g > 0
            THEN Min(g * 10, 500)
                 + (IF p > 0 /\ g * 100 > 10 * p THEN 300 ELSE 0)
            ELSE 0
        backlog ==
            IF mode
            THEN (IF hasNoData THEN 50000
                  ELSE IF isStale THEN 20000
                  ELSE IF hasData /\ ~hasActivity THEN 200 ELSE 0)
            ELSE (IF hasNoData THEN 1500
                  ELSE IF hasData /\ ~hasActivity /\ ~isStale THEN 200
                  ELSE IF isStale THEN 100 ELSE 0)
        chill ==
            IF hasNoActivity /\ timeSinceCheck < CHILL_MODE_COOLDOWN THEN -10000
            ELSE IF hasNoActivity /\ timeSinceCheck < CHILL_MODE_COOLDOWN * 2 THEN -5000
            ELSE IF timeSinceCheck < 600 /\ ~isVeryNew /\ ~isTier1 /\ ~hasActivity THEN -5000
            ELSE IF timeSinceCheck < 1200 /\ ~isVeryNew /\ ~isTier1 /\ ~hasActivity THEN -2000
            ELSE IF timeSinceCheck < 1800 /\ ~isTier1 /\ ~hasActivity THEN -500
            ELSE IF timeSinceCheck > CHILL_MODE_COOLDOWN /\ ~isStale /\ hasNoActivity THEN 100
            ELSE IF timeSinceCheck > 1800 /\ ~isStale /\ hasActivity THEN 400
            ELSE IF timeSinceCheck > 1200 /\ ~isStale /\ hasActivity THEN 200
            ELSE IF timeSinceCheck > 600 /\ ~isStale /\ hasActivity THEN 100
            ELSE 0
        holders ==
            IF d.holderCount > 100 THEN 500
            ELSE IF d.holderCount > 50 THEN 300
            ELSE IF d.holderCount > 20 THEN 150
            ELSE IF d.holderCount > 10 THEN 75
            ELSE IF d.holderCount > 5 THEN 30 ELSE 0
        devBuy ==
            IF d.devBuyAmount > 100 THEN 400
            ELSE IF d.devBuyAmount > 50 THEN 250
            ELSE IF d.devBuyAmount > 25 THEN 150
            ELSE IF d.devBuyAmount > 10 THEN 75
            ELSE IF d.devBuyAmount > 0 THEN 25 ELSE 0
    IN tier1 + tier2 + volume + newness + growth + backlog + chill + holders + devBuy

\* validTokens
ValidTokens(ds, ts) == SelectSeq(ds, LAMBDA d : IsValidToken(d, ts))

\* tokensWithVolume: the first tokens get the recent transfer count rv[i] of
\* their pre-check, the tokens from index 20 on are added with 0
TokensWithVolume(valid, rv, mode) ==
    LET checked == Slice(valid, 0, IF mode THEN 50 ELSE 10)
        rest == SliceFrom(valid, 20)
    IN [i \in 1..Len(checked) |-> [deployment |-> checked[i], recentVolume |-> rv[i]]]
       \o [i \in 1..Len(rest) |-> [deployment |-> rest[i], recentVolume |-> 0]]

WithPriority(tv, ts, mode, poll) ==
    [i \in 1..Len(tv) |->
        [deployment |-> tv[i].deployment,
         recentVolume |-> tv[i].recentVolume,
         priority |-> Priority(tv[i].deployment, tv[i].recentVolume, ts, mode, poll),
         lastCheck |-> LastCheckOf(tv[i].deployment),
         hasActivity |-> HasActivity(tv[i].deployment)]]

RECURSIVE InsertDesc(_, _)
\* t put behind every element of the sorted s whose priority is not lower
InsertDesc(s, t) ==
    IF s = << >> THEN <<t>>
    ELSE IF Head(s).priority >= t.priority THEN <<Head(s)>> \o InsertDesc(Tail(s), t)
    ELSE <<t>> \o s

RECURSIVE SortDesc(_)
\* tokensWithPriority.sort((a, b) => b.priority - a.priority), a stable sort
SortDesc(s) ==
    IF s = << >> THEN << >>
    ELSE InsertDesc(SortDesc(SubSeq(s, 1, Len(s) - 1)), Last(s))

\* the predicate of tokensWithPriority.filter(...) that builds filteredByCooldown
PassesCooldown(t, ts) ==
    LET d == t.deployment
        age == ts - d.timestamp
        isVeryNew == age < HOUR
        lastCheck == IF t.lastCheck # 0 THEN t.lastCheck
                     ELSE IF Len(d.holderCountHistory) > 0
                          THEN Last(d.holderCountHistory).timestamp
                     ELSE d.timestamp
        timeSinceCheck == ts - lastCheck
        hasData == Len(d.holderCountHistory) > 0
    IN IF ~t.hasActivity /\ hasData /\ timeSinceCheck < CHILL_MODE_COOLDOWN THEN FALSE
       ELSE t.priority > 0 \/ (isVeryNew /\ timeSinceCheck > 300) \/ t.hasActivity

\* maxTokens
MaxTokens(crl, mode) == IF crl > 3 THEN 1 ELSE IF mode THEN 10 ELSE 1

\* filteredByCooldown
FilteredByCooldown(sorted, ts) == SelectSeq(sorted, LAMBDA t : PassesCooldown(t, ts))

\* toUpdate taken without the slice
ToUpdateNoBudget(sorted, ts, crl, mode) ==
    [i \in 1..Len(FilteredByCooldown(sorted, ts)) |->
        FilteredByCooldown(sorted, ts)[i].deployment]

\* toUpdate = filteredByCooldown.slice(0, maxTokens).map(t => t.deployment)
ToUpdate(sorted, ts, crl, mode) ==
    [i \in 1..Len(Slice(FilteredByCooldown(sorted, ts), 0, MaxTokens(crl, mode))) |->
        FilteredByCooldown(sorted, ts)[i].deployment]

NeedsVolumeUpdate(t, ts) ==
    /\ t.recentVolume # 0
    /\ ~(ts - t.deployment.timestamp > HOUR
           /\ t.deployment.volume24h < MIN_VOLUME_THRESHOLD)

\* tokensNeedingVolumeUpdate
VolumeList(sorted, ts, crl, mode) ==
    Slice(SelectSeq(sorted, LAMBDA t : NeedsVolumeUpdate(t, ts)),
          0, IF crl > 3 THEN 3 ELSE IF mode THEN 15 ELSE 3)

\* bounds of the scheduler model
MaxCycles == 2
MaxTicks == 1
\* seconds between two looks at the clock; Base produces a block every 2 s
TimeSteps == {300, 4000}
\* numbers of addresses that have taken part in a token's transfers
HolderLevels == {7}
\* consecutiveRateLimits when a selection is made
RateLevels == {0, 4}
\* which tokens of the pre-check show recent Transfer logs
RvPatterns == {"none", "all", "odd", "even"}

\* recentLogs.length of the pre-check of the i-th token
RecentVolumeAt(pat, i) ==
    IF pat = "all" \/ (pat = "odd" /\ i % 2 = 1) \/ (pat = "even" /\ i % 2 = 0)
       \/ (pat = "tail" /\ i > 20)
    THEN 12 ELSE 0

NoSelection == [done |-> FALSE, ts |-> 0, block |-> 0, mode |-> FALSE, crl |-> 0,
                valid |-> 0, filtered |-> 0, maxTokens |-> 0,
                toUpdate |-> << >>, volume |-> << >>, pruned |-> {},
                order |-> << >>]

\* updateHolderCounts from getAllDeployments to toUpdate and
\* tokensNeedingVolumeUpdate
Selection(ds, pat, ts, block, crl, mode, poll) ==
    LET valid == ValidTokens(ds, ts)
        nChecked == Min(Len(valid), IF mode THEN 50 ELSE 10)
        rv == [i \in 1..nChecked |-> RecentVolumeAt(pat, i)]
        sorted == SortDesc(WithPriority(TokensWithVolume(valid, rv, mode),
                                        ts, mode, poll))
    IN [done |-> TRUE, ts |-> ts, block |-> block, mode |-> mode, crl |-> crl,
        valid |-> Len(valid),
        filtered |-> Len(FilteredByCooldown(sorted, ts)),
        maxTokens |-> MaxTokens(crl, mode),
        toUpdate |-> ToUpdate(sorted, ts, crl, mode),
        volume |-> VolumeList(sorted, ts, crl, mode),
        pruned |-> {ds[i].txHash : i \in {j \in 1..Len(ds) : ds[j].isPruned}},
        order |-> [i \in 1..Len(sorted) |->
                      [txHash |-> sorted[i].deployment.txHash,
                       lastHolderCheck |-> sorted[i].deployment.lastHolderCheck,
                       samples |-> Len(sorted[i].deployment.holderCountHistory),
                       priority |-> sorted[i].priority]]]

\* an update that writes tokenAddress even when updates does not carry it
updateDeploymentUnguarded(ds, txHash, updates) ==
    [i \in 1..Len(ds) |->
        IF ds[i].txHash = txHash
        THEN [f \in DOMAIN ds[i] |->
                 IF f \in DOMAIN updates THEN updates[f]
                 ELSE IF f = "tokenAddress" THEN NoAddress ELSE ds[i][f]]
        ELSE ds[i]]

\* an update that resets isPruned when updates does not carry it
updateDeploymentResetsPruned(ds, txHash, updates) ==
    [i \in 1..Len(ds) |->
        IF ds[i].txHash = txHash
        THEN [f \in DOMAIN ds[i] |->
                 IF f \in DOMAIN updates THEN updates[f]
                 ELSE IF f = "isPruned" THEN FALSE ELSE ds[i][f]]
        ELSE ds[i]]

\* storage.js updateDeployment: the fields of updates replace those stored
updateDeployment(ds, txHash, updates) ==
    [i \in 1..Len(ds) |->
        IF ds[i].txHash = txHash
        THEN [f \in DOMAIN ds[i] |->
                 IF f \in DOMAIN updates THEN updates[f] ELSE ds[i][f]]
        ELSE ds[i]]

\* the fire-and-forget updateDeployment(d.txHash, { isPruned: true }) calls
MarkPruned(ds, ts) ==
    [i \in 1..Len(ds) |->
        IF MarkedPruned(ds[i], ts) THEN [ds[i] EXCEPT !.isPruned = TRUE] ELSE ds[i]]

Idle == [pc |-> "idle", i |-> 0]

\* where updateHolderCounts goes after the selection
FirstPos(s) ==
    IF Len(s.volume) > 0 THEN [pc |-> "volume", i |-> 1]
    ELSE IF Len(s.toUpdate) > 0 THEN [pc |-> "holders", i |-> 1]
    ELSE Idle

\* where updateHolderCounts goes after the token at position c
NextPos(s, c) ==
    IF c.pc = "volume" /\ c.i < Len(s.volume) THEN [pc |-> "volume", i |-> c.i + 1]
    ELSE IF c.pc = "volume" /\ Len(s.toUpdate) > 0 THEN [pc |-> "holders", i |-> 1]
    ELSE IF c.pc = "holders" /\ c.i < Len(s.toUpdate)
    THEN [pc |-> "holders", i |-> c.i + 1]
    ELSE Idle

NoOp == [op |-> "none", tx |-> 0, kind |-> "none", trace |-> "none",
         mcOk |-> TRUE, wrote |-> FALSE]

\* the variables no step of updateHolderCounts touches
schedFrozen == <<procPc, procTx, procExisting, lastCheckedBlock, isMonitoring,
                 advances, loopPc, loopRun, runs, lastRateLimitHit, paidKey,
                 gw, gwCalls, gwAttempts>>

\* checkForNewDeployments stores a new deployment before updateHolderCounts
\* runs; ranges are scanned in block order
Discover(tx) ==
    /\ cyc.pc = "idle"
    /\ ~HasTxHash(deployments, tx)
    /\ \A i \in 1..Len(deployments) : deployments[i].txHash < tx
    /\ ~(TokenOf(tx) # NoAddress /\ HasTokenAddress(deployments, TokenOf(tx)))
    /\ deployments' = addDeployment(deployments, NewDeployment(tx))
    /\ lastOp' = NoOp
    /\ sel' = NoSelection
    /\ UNCHANGED <<CATCH_UP_MODE, POLL_INTERVAL, catchUpLowWorkCycles, savedState,
                   chainHead, consecutiveRateLimits, now, ticks, chainHolders,
                   cyc, cycles>>

\* Transfer events bring new addresses to a stored token
Transfers(tx, h) ==
    /\ cyc.pc = "idle"
    /\ HasTxHash(deployments, tx)
    /\ TokenOf(tx) # NoAddress
    /\ h > chainHolders[tx]
    /\ chainHolders' = [chainHolders EXCEPT ![tx] = h]
    /\ lastOp' = NoOp
    /\ sel' = NoSelection
    /\ UNCHANGED <<deployments, CATCH_UP_MODE, POLL_INTERVAL, catchUpLowWorkCycles,
                   savedState, chainHead, consecutiveRateLimits, now, ticks,
                   cyc, cycles>>

\* time passes between two cycles: Date.now() and getBlockNumber() move on
Tick(dt) ==
    /\ cyc.pc = "idle"
    /\ ticks < MaxTicks
    /\ ticks' = ticks + 1
    /\ now' = now + dt
    /\ chainHead' = chainHead + dt \div 2
    /\ lastOp' = NoOp
    /\ sel' = NoSelection
    /\ UNCHANGED <<deployments, CATCH_UP_MODE, POLL_INTERVAL, catchUpLowWorkCycles,
                   savedState, consecutiveRateLimits, chainHolders, cyc, cycles>>

\* updateHolderCounts up to the first volume or holder update
UhcSelect(pat) ==
    /\ cyc.pc = "idle"
    /\ cycles < MaxCycles
    /\ cycles' = cycles + 1
    /\ deployments' = MarkPruned(deployments, now)
    /\ lastOp' = NoOp
    /\ IF ValidTokens(deployments, now) = << >>
       THEN /\ sel' = [NoSelection EXCEPT !.done = TRUE, !.ts = now,
                          !.block = chainHead, !.mode = CATCH_UP_MODE,
                          !.crl = consecutiveRateLimits,
                          !.pruned = {deployments[i].txHash :
                                        i \in {j \in 1..Len(deployments) :
                                                 deployments[j].isPruned}}]
            /\ cyc' = Idle
            /\ UNCHANGED <<CATCH_UP_MODE, POLL_INTERVAL, catchUpLowWorkCycles,
                           savedState>>
       ELSE LET s == Selection(deployments, pat, now, chainHead,
                               consecutiveRateLimits, CATCH_UP_MODE,
                               POLL_INTERVAL)
                c == CatchUpStep(TRUE, Len(s.toUpdate) + Len(s.volume))
            IN /\ sel' = s
               /\ cyc' = FirstPos(s)
               /\ CATCH_UP_MODE' = c.mode
               /\ POLL_INTERVAL' = c.poll
               /\ catchUpLowWorkCycles' = c.low
               /\ savedState' = c.saved
    /\ UNCHANGED <<chainHead, consecutiveRateLimits, now, ticks, chainHolders>>

Vol(kind, a, b, c, d) ==
    [kind |-> kind, volume1h |-> a, volume6h |-> b, volume24h |-> c, volume7d |-> d]

\* what calculateActualVolume returns: zeros without a trace endpoint; else
\* the traced volumes, the volumes traced when the 15 s budget ran out, the
\* transfer-count estimate, or zeros when a log fetch of the estimate timed
\* out or failed
\* the Transfer logs the token has in the last 1 h, 6 h and 24 h
transferCount1h == 2
transferCount6h == 3
transferCount24h == 5

\* the estimate of calculateActualVolume: 0.01 ETH per transfer of the window
TransferEstimate ==
    Vol("fallback", transferCount1h, transferCount6h, transferCount24h,
        transferCount24h * 7)

VolumeOutcomes(key) ==
    IF ~key THEN {Vol("notrace", 0, 0, 0, 0)}
    ELSE {Vol("trace", 40, 40, 120, 120), Vol("budget", 10, 10, 10, 10),
          TransferEstimate, Vol("timeout", 0, 0, 0, 0),
          Vol("error", 0, 0, 0, 0)}

\* what fetchMarketCap returns: the top pair's market cap, or 0 on any failure
McOutcomes == {[ok |-> TRUE, value |-> 20000], [ok |-> FALSE, value |-> 0]}

\* one pass of the volume loop
UhcVolume(out, mc) ==
    /\ cyc.pc = "volume"
    /\ LET d == sel.volume[cyc.i].deployment
           age == sel.ts - d.timestamp
           shouldUpdate == age <= HOUR \/ out.volume24h >= MIN_VOLUME_THRESHOLD
           hist == Append(d.volumeHistory,
                          [volume |-> out.volume24h, timestamp |-> sel.ts])
           newVolumeHistory == IF Len(hist) > 30 THEN Tail(hist) ELSE hist
       IN /\ (shouldUpdate \/ mc.ok)
          /\ deployments' =
                IF shouldUpdate
                THEN updateDeployment(deployments, d.txHash,
                        [volume1h |-> out.volume1h, volume6h |-> out.volume6h,
                         volume24h |-> out.volume24h, volume7d |-> out.volume7d,
                         volumeHistory |-> newVolumeHistory,
                         marketCap |-> mc.value])
                ELSE deployments
          /\ lastOp' = [op |-> "volume", tx |-> d.txHash, kind |-> out.kind,
                        trace |-> "none", mcOk |-> mc.ok, wrote |-> shouldUpdate]
    /\ cyc' = NextPos(sel, cyc)
    /\ UNCHANGED <<CATCH_UP_MODE, POLL_INTERVAL, catchUpLowWorkCycles, savedState,
                   chainHead, consecutiveRateLimits, now, ticks, chainHolders,
                   cycles, sel>>

\* how smartGetLogs(fromBlock, toBlock) can end for a caller: a direct call
\* returns the logs or throws; a chunked call returns all logs, returns the
\* logs without those of dropped chunks, or is cut by the 30 s deadline
LogsOutcomes(fromBlock, toBlock) ==
    IF toBlock - fromBlock <= FREE_TIER_MAX_BLOCK_RANGE
    THEN {"complete", "throttled", "timeout", "error"}
    ELSE {"complete", "dropped", "timeout"}

\* holders.size after a scan: every address of the range when the whole
\* life of the token was read, fewer when chunks were dropped or only the
\* recent window was read
Found(kind, whole, h) ==
    IF kind = "dropped" THEN {h \div 2}
    ELSE IF whole THEN {h}
    ELSE {h \div 2, h}

TraceOutcomes == {"all", "half"}

\* one pass of the holder loop
UhcHolders(kind, trace, mc, coin) ==
    /\ cyc.pc = "holders"
    /\ \E found \in Found(kind, sel.block - sel.toUpdate[cyc.i].blockNumber
                                  <= MAX_BLOCKS_TO_CHECK,
                            chainHolders[sel.toUpdate[cyc.i].txHash]) :
       LET d == sel.toUpdate[cyc.i]
           fromBlock == d.blockNumber
           toBlock == sel.block
           blockRange == toBlock - fromBlock
           checkFromBlock == IF blockRange > MAX_BLOCKS_TO_CHECK
                             THEN Max(fromBlock, toBlock - MAX_BLOCKS_TO_CHECK)
                             ELSE fromBlock
           returned == kind \in {"complete", "dropped"}
           traced == /\ returned /\ paidKey /\ found > 0 /\ found < 1000
                     /\ Min(5, (toBlock - checkFromBlock) \div 10) > 0
           verifiedHolderCount == IF traced /\ trace = "half"
                                  THEN (found + 1) \div 2 ELSE found
           newHolderCount == IF checkFromBlock > fromBlock /\ d.holderCount # 0
                             THEN Max(d.holderCount, verifiedHolderCount)
                             ELSE verifiedHolderCount
           age == sel.ts - d.timestamp
           shouldPrune == age > HOUR /\ newHolderCount <= 5
           history == d.holderCountHistory
           timeSinceLastUpdate ==
               sel.ts - (IF Len(history) > 0 THEN Last(history).timestamp
                         ELSE d.timestamp)
           countChanged == newHolderCount # d.holderCount
           full == countChanged \/ timeSinceLastUpdate > 300
           appended == Append(history, [count |-> newHolderCount,
                                        timestamp |-> sel.ts])
           newHistory == IF Len(appended) > 10 THEN Tail(appended) ELSE appended
           fetch == d.marketCap = 0 \/ (countChanged /\ coin)
           marketCap == IF fetch THEN mc.value ELSE d.marketCap
           updateData == [holderCount |-> newHolderCount,
                          holderCountHistory |-> newHistory,
                          lastHolderCheck |-> sel.ts,
                          marketCap |-> marketCap]
       IN /\ kind \in LogsOutcomes(checkFromBlock, toBlock)
          /\ (traced \/ trace = "all")
          /\ (returned \/ found = chainHolders[d.txHash])
          /\ ((returned /\ full /\ fetch) \/ mc.ok)
          /\ ((returned /\ full /\ countChanged /\ d.marketCap # 0) \/ ~coin)
          /\ deployments' =
                IF ~returned THEN deployments
                ELSE IF full
                THEN updateDeployment(deployments, d.txHash,
                        IF shouldPrune
                        THEN [holderCount |-> newHolderCount,
                              holderCountHistory |-> newHistory,
                              lastHolderCheck |-> sel.ts,
                              marketCap |-> marketCap,
                              isPruned |-> TRUE]
                        ELSE updateData)
                ELSE updateDeployment(deployments, d.txHash,
                                      [lastHolderCheck |-> sel.ts])
          /\ lastOp' = [op |-> "holders", tx |-> d.txHash, kind |-> kind,
                        trace |-> trace, mcOk |-> mc.ok, wrote |-> returned]
    /\ cyc' = NextPos(sel, cyc)
    /\ UNCHANGED <<CATCH_UP_MODE, POLL_INTERVAL, catchUpLowWorkCycles, savedState,
                   chainHead, consecutiveRateLimits, now, ticks, chainHolders,
                   cycles, sel>>

\* getDeploymentByTxHash
Stored(ds, txHash) == ds[CHOOSE i \in 1..Len(ds) : ds[i].txHash = txHash]

\* the metrics a refresh maintains
Metrics(d) == <<d.holderCount, d.volume1h, d.volume6h, d.volume24h, d.volume7d,
                d.marketCap>>

(***************************************************************************)
(* Stores for the selection taken alone                                    *)
(***************************************************************************)
\* bound: number of deployments of a drawn store
MaxSeed == 24
MixKinds == {"live", "varied", "backlog"}

\* a deployment as earlier cycles leave it, ts being the time of selection:
\* 1 unchecked since creation, 2 young and growing, 3 old with many holders,
\* 4 pruned, 5 old without volume, 6 checked a moment ago without activity,
\* 7 no token address resolved, 8 a young row never enriched (the columns'
\* defaults: no history, no lastHolderCheck), 9 an old row never enriched,
\* 10 a long-lived token whose two histories are full, 11 an old token with
\* volume and few holders, not yet marked pruned
SeedDeployment(i, k, ts, block) ==
    LET age == IF k \in {1, 7} THEN 400 ELSE IF k = 8 THEN 200
               ELSE IF k \in {2, 6} THEN 1000 ELSE 5000
        created == ts - age
        count == IF k = 1 THEN 2 ELSE IF k = 2 THEN 12 ELSE IF k = 3 THEN 60
                 ELSE IF k \in {4, 11} THEN 3 ELSE IF k = 5 THEN 20
                 ELSE IF k = 6 THEN 8 ELSE IF k \in {9, 10} THEN 60 ELSE 0
        checked == IF k = 2 THEN ts - 500 ELSE IF k \in {3, 10} THEN ts - 2000
                   ELSE IF k \in {4, 11} THEN ts - 1000
                   ELSE IF k = 6 THEN ts - 100 ELSE 0
        before == IF k = 2 THEN 2 ELSE IF k = 3 THEN 30 ELSE count
        v24 == IF k = 2 THEN 120 ELSE IF k \in {3, 4, 9, 10, 11} THEN 150 ELSE 0
    IN [ txHash |-> 100 + i,
         tokenAddress |-> IF k = 7 THEN NoAddress ELSE 100 + i,
         blockNumber |-> block - age \div 2,
         timestamp |-> created,
         holderCount |-> count,
         holderCountHistory |->
            IF k \in {8, 9} THEN << >>
            ELSE IF k = 10
            THEN [j \in 1..10 |-> [count |-> 50 + j, timestamp |-> created + 300 * j]]
            ELSE IF checked = 0 THEN << [count |-> count, timestamp |-> created] >>
            ELSE << [count |-> before, timestamp |-> created],
                    [count |-> count, timestamp |-> checked] >>,
         lastHolderCheck |-> checked,
         volume1h |-> v24 \div 3, volume6h |-> v24 \div 3,
         volume24h |-> v24, volume7d |-> v24,
         volumeHistory |-> IF v24 = 0 THEN << >>
                           ELSE IF k = 10
                           THEN [j \in 1..30 |->
                                   [volume |-> 120 + j, timestamp |-> created + 100 * j]]
                           ELSE << [volume |-> v24, timestamp |-> ts - 500] >>,
         marketCap |-> IF k = 2 THEN 20000 ELSE IF k \in {3, 10} THEN 60000 ELSE 0,
         devBuyAmount |-> IF k = 2 THEN 30 ELSE IF k = 3 THEN 120 ELSE 0,
         devSold |-> FALSE,
         devTransferCount |-> 0,
         isPruned |-> k = 4 ]

SeedStore(n, mix, shift, ts, block) ==
    [i \in 1..n |->
        SeedDeployment(i, IF mix = "live" THEN ((i + shift) % 3) + 1
                          ELSE IF mix = "varied" THEN ((i + shift) % 7) + 1
                          ELSE <<8, 2, 3, 9, 6>>[((i + shift) % 5) + 1], ts, block)]

\* the selection of updateHolderCounts applied to the store
ApplySelection(pat) ==
    /\ ~sel.done
    /\ sel' = Selection(deployments, pat, now, chainHead, consecutiveRateLimits,
                        CATCH_UP_MODE, POLL_INTERVAL)
    /\ UNCHANGED <<deployments, CATCH_UP_MODE, POLL_INTERVAL, catchUpLowWorkCycles,
                   savedState, chainHead, consecutiveRateLimits, now, ticks,
                   chainHolders, cyc, cycles, lastOp>>

\* checkForDevSells: of the first 10 unsold deployments with a token address,
\* those whose deployer has sent tokens away are marked sold
CheckForDevSells(moved) ==
    /\ cyc.pc = "idle" /\ ~sel.done
    /\ LET unsold == SelectSeq(deployments,
                         LAMBDA d : ~d.devSold /\ d.tokenAddress # NoAddress)
           picked == {unsold[i].txHash : i \in 1..Min(10, Len(unsold))}
       IN deployments' =
             [i \in 1..Len(deployments) |->
                 IF moved /\ deployments[i].txHash \in picked
                 THEN updateDeployment(<<deployments[i]>>, deployments[i].txHash,
                                       [devSold |-> TRUE])[1]
                 ELSE deployments[i]]
    /\ lastOp' = [NoOp EXCEPT !.op = "devSells", !.wrote = moved]
    /\ UNCHANGED <<CATCH_UP_MODE, POLL_INTERVAL, catchUpLowWorkCycles, savedState,
                   chainHead, consecutiveRateLimits, now, ticks, chainHolders,
                   cyc, cycles, sel>>

\* checkForDevTransfers: of the first 20 deployments of the last 43200 blocks
\* with a token address, those whose deployer has moved tokens get the
\* transfer count
CheckForDevTransfers(moved) ==
    /\ cyc.pc = "idle" /\ ~sel.done
    /\ LET recent == SelectSeq(deployments,
                         LAMBDA d : /\ d.tokenAddress # NoAddress
                                    /\ chainHead - d.blockNumber < 43200)
           picked == {recent[i].txHash : i \in 1..Min(20, Len(recent))}
       IN deployments' =
             [i \in 1..Len(deployments) |->
                 IF moved /\ deployments[i].txHash \in picked
                 THEN updateDeployment(<<deployments[i]>>, deployments[i].txHash,
                                       [devTransferCount |-> 1])[1]
                 ELSE deployments[i]]
    /\ lastOp' = [NoOp EXCEPT !.op = "devTransfers", !.wrote = moved]
    /\ UNCHANGED <<CATCH_UP_MODE, POLL_INTERVAL, catchUpLowWorkCycles, savedState,
                   chainHead, consecutiveRateLimits, now, ticks, chainHolders,
                   cyc, cycles, sel>>

\* a scan meets the transaction of the i-th stored deployment again and
\* extracts it, this time without resolving a token address
ExtractAgain(i) ==
    /\ cyc.pc = "idle" /\ ~sel.done
    /\ i \in 1..Len(deployments)
    /\ deployments' =
          IF HasTxHash(deployments, deployments[i].txHash) THEN deployments
          ELSE addDeployment(deployments,
                  [deployments[i] EXCEPT !.tokenAddress = NoAddress,
                                         !.holderCount = 0])
    /\ lastOp' = [NoOp EXCEPT !.op = "extract", !.tx = deployments[i].txHash]
    /\ UNCHANGED <<CATCH_UP_MODE, POLL_INTERVAL, catchUpLowWorkCycles, savedState,
                   chainHead, consecutiveRateLimits, now, ticks, chainHolders,
                   cyc, cycles, sel>>

\* bound: number of deployments of a store on which a whole cycle is run
MaxRefresh == 2
\* the kinds of its first deployment, which the cycle may refresh
RefreshProfiles == {2, 8, 10, 11}
\* the kinds of its other deployments, which the filter leaves out
RefreshBystanders == {4, 7}
\* addresses that have taken part in the transfers of every token
RefreshHolders == {4, 64}

\* bound: number of quiet tokens standing before the token that is refreshed
MaxCrowd == 20
\* the pre-check finds recent transfers for no token, or for those behind
\* the 20th only
CrowdPatterns == {"none", "tail"}

\* bound: how many free places a nearly full store may have
ArchiveSlack == 1

(***************************************************************************)
(* Specifications                                                          *)
(***************************************************************************)
\* The process right after its modules are loaded: empty store, no state file,
\* startMonitoring not yet run.
Init ==
    /\ deployments = << >>
    /\ procPc = [p \in Procs |-> "idle"]
    /\ procTx = [p \in Procs |-> 1]
    /\ procExisting = [p \in Procs |-> << >>]
    /\ lastCheckedBlock = 0
    /\ isMonitoring = FALSE
    /\ CATCH_UP_MODE = TRUE
    /\ POLL_INTERVAL = FastPoll
    /\ catchUpLowWorkCycles = 0
    /\ savedState = [lastCheckedBlock |-> 0, catchUpComplete |-> Absent]
    /\ chainHead = GenesisHead
    /\ advances = 0
    /\ loopPc = "off"
    /\ loopRun = 0
    /\ runs = << >>
    /\ consecutiveRateLimits = 0
    /\ lastRateLimitHit = 0
    /\ paidKey = FALSE
    /\ gw = IdleCall
    /\ gwCalls = 0
    /\ gwAttempts = 0
    /\ now = TimeOf(MaxTx) + 2
    /\ ticks = 0
    /\ chainHolders = [tx \in Txs |-> ReceiptHolders(tx)]
    /\ cyc = Idle
    /\ cycles = 0
    /\ sel = NoSelection
    /\ lastOp = NoOp

StoreNext ==
    \/ \E p \in Procs, tx \in Txs : ProcessTransaction(p, tx) /\ UNCHANGED notStore
    \/ \E p \in Procs : ExtractCheck(p) /\ UNCHANGED notStore
    \/ \E p \in Procs : ExtractStore(p) /\ UNCHANGED notStore

SpecStore == Init /\ [][StoreNext]_vars

\* extraction over a long-running store
ArchiveNext ==
    \/ \E p \in Procs, tx \in Txs : ProcessTransaction(p, tx) /\ UNCHANGED notStore
    \/ \E p \in Procs : ExtractCheck(p) /\ UNCHANGED notStore
    \/ \E p \in Procs : ExtractStore(p) /\ UNCHANGED notStore

\* the store of a monitor that has run for a long time: data/deployments.json
\* holds MAX_ENTRIES deployments, or a few less
InitArchive ==
    /\ \E n \in (MAX_ENTRIES - ArchiveSlack)..MAX_ENTRIES :
          deployments = SeedStore(n, "live", 0, TimeOf(1) - 100, BlockOf(1) - 50)
    /\ procPc = [p \in Procs |-> "idle"]
    /\ procTx = [p \in Procs |-> 1]
    /\ procExisting = [p \in Procs |-> << >>]
    /\ lastCheckedBlock = 0
    /\ isMonitoring = FALSE
    /\ CATCH_UP_MODE = TRUE
    /\ POLL_INTERVAL = FastPoll
    /\ catchUpLowWorkCycles = 0
    /\ savedState = [lastCheckedBlock |-> 0, catchUpComplete |-> Absent]
    /\ chainHead = BlockOf(MaxTx) + 1
    /\ advances = 0
    /\ loopPc = "off"
    /\ loopRun = 0
    /\ runs = << >>
    /\ consecutiveRateLimits = 0
    /\ lastRateLimitHit = 0
    /\ paidKey = FALSE
    /\ gw = IdleCall
    /\ gwCalls = 0
    /\ gwAttempts = 0
    /\ now = TimeOf(MaxTx) + 2
    /\ ticks = 0
    /\ chainHolders = [tx \in Txs |-> ReceiptHolders(tx)]
    /\ cyc = Idle
    /\ cycles = 0
    /\ sel = NoSelection
    /\ lastOp = NoOp

SpecArchive == InitArchive /\ [][ArchiveNext]_vars

LoopNext ==
    \/ StartMonitoring /\ UNCHANGED notLoop
    \/ StartMonitoringFails /\ UNCHANGED notLoop
    \/ MonitorLoop /\ UNCHANGED notLoop
    \/ CycleTimeout /\ UNCHANGED notLoop
    \/ \E r \in 1..Len(runs) : RunReadHead(r) /\ UNCHANGED notLoop
    \/ \E r \in 1..Len(runs) : RunHeadFails(r) /\ UNCHANGED notLoop
    \/ \E r \in 1..Len(runs), e \in BOOLEAN, w \in WorkLevels :
          (e \/ w = 0) /\ RunEnrich(r, e, w) /\ UNCHANGED notLoop
    \/ \E r \in 1..Len(runs) : RunCommit(r) /\ UNCHANGED notLoop
    \/ \E r \in 1..Len(runs) : RunSave(r) /\ UNCHANGED notLoop
    \/ \E d \in BlockSteps : ChainAdvance(d) /\ UNCHANGED notLoop

SpecLoop == Init /\ [][LoopNext]_vars

\* the timers of the loop fire: the retry timer of startMonitoring (and the
\* ledger node answers in the end), the 2-minute timer of the cycle, and the
\* POLL_INTERVAL timer of monitorLoop
SpecLoopLive ==
    /\ Init /\ [][LoopNext]_vars
    /\ WF_vars(StartMonitoring /\ UNCHANGED notLoop)
    /\ WF_vars(CycleTimeout /\ UNCHANGED notLoop)
    /\ WF_vars(MonitorLoop /\ UNCHANGED notLoop)

\* one polling cycle with its log fetches going through the gateway
ScanNext ==
    \/ \E r \in 1..Len(runs) : RunReadHead(r) /\ UNCHANGED notLoop
    \/ \E r \in 1..Len(runs) : RunHeadFails(r) /\ UNCHANGED notLoop
    \/ \E r \in 1..Len(runs) :
          CheckTokenCreatedEvents(r) /\ UNCHANGED <<storeVars, schedVars>>
    \/ \E r \in 1..Len(runs) : EventsFetched(r) /\ UNCHANGED <<storeVars, schedVars>>
    \/ \E r \in 1..Len(runs) :
          TransactionsFetched(r) /\ UNCHANGED <<storeVars, schedVars>>
    \/ \E o \in Outcomes : GwDirect(o) /\ UNCHANGED <<gwCalls, notGateway>>
    \/ \E o \in Outcomes : GwChunk(o) /\ UNCHANGED <<gwCalls, notGateway>>
    \/ GwOverallTimeout /\ UNCHANGED notGateway
    \/ \E r \in 1..Len(runs), e \in BOOLEAN, w \in WorkLevels :
          /\ runs[r].fetch = "done"
          /\ (e \/ w = 0)
          /\ RunEnrich(r, e, w) /\ UNCHANGED notLoop
    \/ \E r \in 1..Len(runs) : RunCommit(r) /\ UNCHANGED notLoop
    \/ \E r \in 1..Len(runs) : RunSave(r) /\ UNCHANGED notLoop

\* the monitor has started at block GenesisHead, its first cycle begins after
\* the chain has grown
InitScan ==
    /\ deployments = << >>
    /\ procPc = [p \in Procs |-> "idle"]
    /\ procTx = [p \in Procs |-> 1]
    /\ procExisting = [p \in Procs |-> << >>]
    /\ lastCheckedBlock = GenesisHead
    /\ isMonitoring = TRUE
    /\ CATCH_UP_MODE = TRUE
    /\ POLL_INTERVAL = FastPoll
    /\ catchUpLowWorkCycles = 0
    /\ savedState = [lastCheckedBlock |-> GenesisHead,
                     catchUpComplete |-> BoolField(FALSE)]
    /\ \E w \in ScanWidths : chainHead = GenesisHead + w
    /\ advances = 1
    /\ loopPc = "racing"
    /\ loopRun = 1
    /\ runs = <<NewRun>>
    /\ consecutiveRateLimits = 0
    /\ lastRateLimitHit = 0
    /\ paidKey \in BOOLEAN
    /\ gw = IdleCall
    /\ gwCalls = 0
    /\ gwAttempts = 0
    /\ now = TimeOf(MaxTx) + 2
    /\ ticks = 0
    /\ chainHolders = [tx \in Txs |-> ReceiptHolders(tx)]
    /\ cyc = Idle
    /\ cycles = 0
    /\ sel = NoSelection
    /\ lastOp = NoOp

SpecScan == InitScan /\ [][ScanNext]_vars

\* checkTokenCreatedEvents of one polling cycle, up to the call of
\* getTransactionsInRange
EventsNext ==
    \/ \E r \in 1..Len(runs) : RunReadHead(r) /\ UNCHANGED notLoop
    \/ \E r \in 1..Len(runs) :
          CheckTokenCreatedEvents(r) /\ UNCHANGED <<storeVars, schedVars>>
    \/ \E r \in 1..Len(runs) : EventsFetched(r) /\ UNCHANGED <<storeVars, schedVars>>
    \/ \E r \in 1..Len(runs), o \in BacklogOutcomes :
          /\ runs[r].fetch \in {"recent", "older", "again"}
          /\ GwDirect(o) /\ UNCHANGED <<gwCalls, notGateway>>
    \/ \E r \in 1..Len(runs), o \in BacklogOutcomes :
          /\ runs[r].fetch \in {"recent", "older", "again"}
          /\ GwChunk(o) /\ UNCHANGED <<gwCalls, notGateway>>
    \/ \E r \in 1..Len(runs) :
          /\ runs[r].fetch \in {"recent", "older", "again"}
          /\ GwOverallTimeout /\ UNCHANGED notGateway

\* the monitor has started at block GenesisHead, its first cycle begins after
\* the chain has grown by more or less than the trailing window
InitEvents ==
    /\ deployments = << >>
    /\ procPc = [p \in Procs |-> "idle"]
    /\ procTx = [p \in Procs |-> 1]
    /\ procExisting = [p \in Procs |-> << >>]
    /\ lastCheckedBlock = GenesisHead
    /\ isMonitoring = TRUE
    /\ CATCH_UP_MODE = TRUE
    /\ POLL_INTERVAL = FastPoll
    /\ catchUpLowWorkCycles = 0
    /\ savedState = [lastCheckedBlock |-> GenesisHead,
                     catchUpComplete |-> BoolField(FALSE)]
    /\ \E w \in BacklogWidths : chainHead = GenesisHead + w
    /\ advances = 1
    /\ loopPc = "racing"
    /\ loopRun = 1
    /\ runs = <<NewRun>>
    /\ consecutiveRateLimits = 0
    /\ lastRateLimitHit = 0
    /\ paidKey \in BOOLEAN
    /\ gw = IdleCall
    /\ gwCalls = 0
    /\ gwAttempts = 0
    /\ now = TimeOf(MaxTx) + 2
    /\ ticks = 0
    /\ chainHolders = [tx \in Txs |-> ReceiptHolders(tx)]
    /\ cyc = Idle
    /\ cycles = 0
    /\ sel = NoSelection
    /\ lastOp = NoOp

SpecEvents == InitEvents /\ [][EventsNext]_vars

GatewayNext ==
    \/ \E w \in GwWidths : GwCall(w) /\ UNCHANGED notGateway
    \/ \E o \in Outcomes : GwDirect(o) /\ UNCHANGED <<gwCalls, notGateway>>
    \/ \E o \in Outcomes : GwChunk(o) /\ UNCHANGED <<gwCalls, notGateway>>
    \/ GwOverallTimeout /\ UNCHANGED notGateway

\* ALCHEMY_API_KEY_PAID may or may not be configured
InitGateway ==
    /\ deployments = << >>
    /\ procPc = [p \in Procs |-> "idle"]
    /\ procTx = [p \in Procs |-> 1]
    /\ procExisting = [p \in Procs |-> << >>]
    /\ lastCheckedBlock = 0
    /\ isMonitoring = FALSE
    /\ CATCH_UP_MODE = TRUE
    /\ POLL_INTERVAL = FastPoll
    /\ catchUpLowWorkCycles = 0
    /\ savedState = [lastCheckedBlock |-> 0, catchUpComplete |-> Absent]
    /\ chainHead = GenesisHead
    /\ advances = 0
    /\ loopPc = "off"
    /\ loopRun = 0
    /\ runs = << >>
    /\ consecutiveRateLimits = 0
    /\ lastRateLimitHit = 0
    /\ paidKey \in BOOLEAN
    /\ gw = IdleCall
    /\ gwCalls = 0
    /\ gwAttempts = 0
    /\ now = TimeOf(MaxTx) + 2
    /\ ticks = 0
    /\ chainHolders = [tx \in Txs |-> ReceiptHolders(tx)]
    /\ cyc = Idle
    /\ cycles = 0
    /\ sel = NoSelection
    /\ lastOp = NoOp

SpecGateway == InitGateway /\ [][GatewayNext]_vars

SchedNext ==
    \/ \E tx \in Txs : Discover(tx) /\ UNCHANGED schedFrozen
    \/ \E tx \in Txs, h \in HolderLevels : Transfers(tx, h) /\ UNCHANGED schedFrozen
    \/ \E dt \in TimeSteps : Tick(dt) /\ UNCHANGED schedFrozen
    \/ \E pat \in RvPatterns : UhcSelect(pat) /\ UNCHANGED schedFrozen
    \/ \E out \in VolumeOutcomes(paidKey), mc \in McOutcomes :
          UhcVolume(out, mc) /\ UNCHANGED schedFrozen
    \/ \E kind \in {"complete", "dropped", "throttled", "timeout", "error"},
          trace \in TraceOutcomes, mc \in McOutcomes,
          coin \in BOOLEAN :
          UhcHolders(kind, trace, mc, coin) /\ UNCHANGED schedFrozen

\* the monitor with an empty store; the trace endpoint and the catch-up mode
\* are set by the environment
InitSched ==
    /\ deployments = << >>
    /\ procPc = [p \in Procs |-> "idle"]
    /\ procTx = [p \in Procs |-> 1]
    /\ procExisting = [p \in Procs |-> << >>]
    /\ lastCheckedBlock = 0
    /\ isMonitoring = FALSE
    /\ CATCH_UP_MODE \in BOOLEAN
    /\ POLL_INTERVAL = (IF CATCH_UP_MODE THEN FastPoll ELSE SlowPoll)
    /\ catchUpLowWorkCycles = 0
    /\ savedState = [lastCheckedBlock |-> 0, catchUpComplete |-> Absent]
    /\ chainHead = BlockOf(MaxTx) + 1
    /\ advances = 0
    /\ loopPc = "off"
    /\ loopRun = 0
    /\ runs = << >>
    /\ consecutiveRateLimits = 0
    /\ lastRateLimitHit = 0
    /\ paidKey \in BOOLEAN
    /\ gw = IdleCall
    /\ gwCalls = 0
    /\ gwAttempts = 0
    /\ now = TimeOf(MaxTx) + 2
    /\ ticks = 0
    /\ chainHolders = [tx \in Txs |-> ReceiptHolders(tx)]
    /\ cyc = Idle
    /\ cycles = 0
    /\ sel = NoSelection
    /\ lastOp = NoOp

SpecSched == InitSched /\ [][SchedNext]_vars

SelectNext ==
    \/ \E pat \in RvPatterns : ApplySelection(pat) /\ UNCHANGED schedFrozen

\* a store left by earlier cycles, about to be read by updateHolderCounts
InitSelect ==
    /\ \E n \in 0..MaxSeed, mix \in MixKinds, shift \in 0..6 :
          deployments = SeedStore(n, mix, shift, TimeOf(MaxTx) + 10000,
                                  BlockOf(MaxTx) + 5000)
    /\ procPc = [p \in Procs |-> "idle"]
    /\ procTx = [p \in Procs |-> 1]
    /\ procExisting = [p \in Procs |-> << >>]
    /\ lastCheckedBlock = 0
    /\ isMonitoring = FALSE
    /\ CATCH_UP_MODE \in BOOLEAN
    /\ POLL_INTERVAL = (IF CATCH_UP_MODE THEN FastPoll ELSE SlowPoll)
    /\ catchUpLowWorkCycles = 0
    /\ savedState = [lastCheckedBlock |-> 0, catchUpComplete |-> Absent]
    /\ chainHead = BlockOf(MaxTx) + 5000
    /\ advances = 0
    /\ loopPc = "off"
    /\ loopRun = 0
    /\ runs = << >>
    /\ consecutiveRateLimits \in RateLevels
    /\ lastRateLimitHit = 0
    /\ paidKey = FALSE
    /\ gw = IdleCall
    /\ gwCalls = 0
    /\ gwAttempts = 0
    /\ now = TimeOf(MaxTx) + 10000
    /\ ticks = 0
    /\ chainHolders = [tx \in Txs |-> ReceiptHolders(tx)]
    /\ cyc = Idle
    /\ cycles = 0
    /\ sel = NoSelection
    /\ lastOp = NoOp

SpecSelect == InitSelect /\ [][SelectNext]_vars

\* one cycle of updateHolderCounts over a store left by earlier cycles
RefreshNext ==
    \/ \E moved \in BOOLEAN : CheckForDevSells(moved) /\ UNCHANGED schedFrozen
    \/ \E moved \in BOOLEAN : CheckForDevTransfers(moved) /\ UNCHANGED schedFrozen
    \/ \E i \in 1..MaxRefresh : ExtractAgain(i) /\ UNCHANGED schedFrozen
    \/ \E pat \in RvPatterns : UhcSelect(pat) /\ UNCHANGED schedFrozen
    \/ \E out \in VolumeOutcomes(paidKey), mc \in McOutcomes :
          UhcVolume(out, mc) /\ UNCHANGED schedFrozen
    \/ \E kind \in {"complete", "dropped", "throttled", "timeout", "error"},
          trace \in TraceOutcomes, mc \in McOutcomes, coin \in BOOLEAN :
          UhcHolders(kind, trace, mc, coin) /\ UNCHANGED schedFrozen

InitRefresh ==
    /\ \E n \in 1..MaxRefresh, k \in RefreshProfiles, b \in RefreshBystanders :
          deployments = [i \in 1..n |->
                            SeedDeployment(i, IF i = 1 THEN k ELSE b,
                                           TimeOf(MaxTx) + 10000,
                                           BlockOf(MaxTx) + 5000)]
    /\ procPc = [p \in Procs |-> "idle"]
    /\ procTx = [p \in Procs |-> 1]
    /\ procExisting = [p \in Procs |-> << >>]
    /\ lastCheckedBlock = 0
    /\ isMonitoring = FALSE
    /\ CATCH_UP_MODE \in BOOLEAN
    /\ POLL_INTERVAL = (IF CATCH_UP_MODE THEN FastPoll ELSE SlowPoll)
    /\ catchUpLowWorkCycles = 0
    /\ savedState = [lastCheckedBlock |-> 0, catchUpComplete |-> Absent]
    /\ chainHead = BlockOf(MaxTx) + 5000
    /\ advances = 0
    /\ loopPc = "off"
    /\ loopRun = 0
    /\ runs = << >>
    /\ consecutiveRateLimits = 0
    /\ lastRateLimitHit = 0
    /\ paidKey \in BOOLEAN
    /\ gw = IdleCall
    /\ gwCalls = 0
    /\ gwAttempts = 0
    /\ now = TimeOf(MaxTx) + 10000
    /\ ticks = 0
    /\ \E h \in RefreshHolders : chainHolders = [tx \in 101..(100 + MaxRefresh) |-> h]
    /\ cyc = Idle
    /\ cycles = MaxCycles - 1
    /\ sel = NoSelection
    /\ lastOp = NoOp

SpecRefresh == InitRefresh /\ [][RefreshNext]_vars

\* one cycle of updateHolderCounts over a store of many eligible tokens
CrowdNext ==
    \/ \E pat \in CrowdPatterns : UhcSelect(pat) /\ UNCHANGED schedFrozen
    \/ \E out \in VolumeOutcomes(paidKey), mc \in McOutcomes :
          UhcVolume(out, mc) /\ UNCHANGED schedFrozen
    \/ \E kind \in {"complete", "dropped", "throttled", "timeout", "error"},
          trace \in TraceOutcomes, mc \in McOutcomes, coin \in BOOLEAN :
          UhcHolders(kind, trace, mc, coin) /\ UNCHANGED schedFrozen

\* a store whose first tokens were all checked a moment ago without activity,
\* followed by one token that is due
InitCrowd ==
    /\ \E c \in (MaxCrowd - 1)..MaxCrowd, k \in RefreshProfiles :
          deployments = [i \in 1..(c + 1) |->
                            SeedDeployment(i, IF i <= c THEN 6 ELSE k,
                                           TimeOf(MaxTx) + 10000,
                                           BlockOf(MaxTx) + 5000)]
    /\ procPc = [p \in Procs |-> "idle"]
    /\ procTx = [p \in Procs |-> 1]
    /\ procExisting = [p \in Procs |-> << >>]
    /\ lastCheckedBlock = 0
    /\ isMonitoring = FALSE
    /\ CATCH_UP_MODE \in BOOLEAN
    /\ POLL_INTERVAL = (IF CATCH_UP_MODE THEN FastPoll ELSE SlowPoll)
    /\ catchUpLowWorkCycles = 0
    /\ savedState = [lastCheckedBlock |-> 0, catchUpComplete |-> Absent]
    /\ chainHead = BlockOf(MaxTx) + 5000
    /\ advances = 0
    /\ loopPc = "off"
    /\ loopRun = 0
    /\ runs = << >>
    /\ consecutiveRateLimits = 0
    /\ lastRateLimitHit = 0
    /\ paidKey \in BOOLEAN
    /\ gw = IdleCall
    /\ gwCalls = 0
    /\ gwAttempts = 0
    /\ now = TimeOf(MaxTx) + 10000
    /\ ticks = 0
    /\ \E h \in RefreshHolders : chainHolders = [tx \in 101..(101 + MaxCrowd) |-> h]
    /\ cyc = Idle
    /\ cycles = MaxCycles - 1
    /\ sel = NoSelection
    /\ lastOp = NoOp

SpecCrowd == InitCrowd /\ [][CrowdNext]_vars

(***************************************************************************)
(* Claims                                                                  *)
(***************************************************************************)
(***************************************************************************)
(* C1: the stored deployment set never holds two records with the same    *)
(* txHash, whatever scans (cycle, backfill, re-scan) interleave.          *)
(***************************************************************************)
C1_UniqueTxHash ==
    \A i, j \in 1..Len(deployments) :
        deployments[i].txHash = deployments[j].txHash => i = j

\* a re-scan reaches the store's own check with a transaction already stored
C1_Witness ==
    \E p \in Procs : /\ procPc[p] = "resolved"
                     /\ HasTxHash(deployments, procTx[p])
                     /\ ~HasTxHash(procExisting[p], procTx[p])

(***************************************************************************)
(* C2: no two polling cycles overlap: at most one checkForNewDeployments  *)
(* run is executing at any time, also after the cycle timeout has fired.  *)
(***************************************************************************)
C2_NoOverlap ==
    Cardinality({r \in 1..Len(runs) : Executing(r)}) <= 1

(***************************************************************************)
(* C3: a cycle aborted by the 2-minute deadline never afterwards advances *)
(* lastCheckedBlock nor writes the checkpoint.                             *)
(***************************************************************************)
C3_AbortedNeverCommits ==
    [][\A r \in 1..Len(runs) :
          (runs[r].timedOut /\ runs[r].pc \in {"commit", "saving"})
             => runs'[r].pc = runs[r].pc]_vars

(***************************************************************************)
(* C7: for a range wider than the cheap-tier limit, a result returned by  *)
(* smartGetLogs holds the logs of every block of [fromBlock, toBlock]:    *)
(* the sub-ranges are contiguous, non-overlapping and none is missing.    *)
(***************************************************************************)
C7_ChunksCoverRange ==
    (gw.status = "returned"
       /\ gw.toBlock - gw.fromBlock + 1 > FREE_TIER_MAX_BLOCK_RANGE)
    => /\ ResultBlocks(gw) = gw.fromBlock..gw.toBlock
       /\ \A i \in 1..Len(gw.chunks) - 1 :
             gw.chunks[i + 1][1] = gw.chunks[i][2] + 1

(***************************************************************************)
(* C8: every call outcome updates the rate-limit state: a throttled       *)
(* attempt increments consecutiveRateLimits and records lastRateLimitHit, *)
(* and when a call returns a result consecutiveRateLimits is 0.           *)
(***************************************************************************)
C8_RateLimitStateTracksOutcomes ==
    [][ /\ (gw'.freeAttempts + gw'.paidAttempts > gw.freeAttempts + gw.paidAttempts
              /\ gw'.fromBlock = gw.fromBlock /\ isRateLimit(gw'.lastOutcome))
           => (consecutiveRateLimits' = consecutiveRateLimits + 1
                 /\ lastRateLimitHit' = gwAttempts')
        /\ (gw.status = "running" /\ gw'.status = "returned")
           => consecutiveRateLimits' = 0 ]_vars
(***************************************************************************)
(* C4: in every cycle the list of tokens chosen for holder refresh has at *)
(* most maxTokens entries: 10 in catch-up mode, 1 in steady state, 1 when *)
(* consecutiveRateLimits > 3.                                              *)
(***************************************************************************)
C4_SelectionWithinBudget ==
    sel.done =>
       Len(sel.toUpdate) <= (IF sel.crl > 3 THEN 1 ELSE IF sel.mode THEN 10 ELSE 1)

\* catch-up mode, more than ten tokens pass the cooldown filter, ten are chosen
C4_Witness ==
    /\ sel.done /\ sel.mode /\ sel.crl <= 3
    /\ sel.filtered > 10
    /\ Len(sel.toUpdate) = 10

(***************************************************************************)
(* C5: a deployment whose stored isPruned flag is true when a cycle       *)
(* starts is neither in that cycle's holder-refresh selection nor in its  *)
(* volume-refresh selection.                                               *)
(***************************************************************************)
C5_PrunedNeverSelected ==
    sel.done =>
       /\ \A i \in 1..Len(sel.toUpdate) : sel.toUpdate[i].txHash \notin sel.pruned
       /\ \A i \in 1..Len(sel.volume) :
             sel.volume[i].deployment.txHash \notin sel.pruned

\* the store holds pruned deployments and both selections are non-empty
C5_Witness ==
    /\ sel.done
    /\ sel.pruned # {}
    /\ Len(sel.toUpdate) > 0
    /\ Len(sel.volume) > 0

(***************************************************************************)
(* C6: a holder refresh whose scan returned every log never stores a      *)
(* holderCount lower than the one stored before, over the whole block     *)
(* range of the token as over the recent window.                           *)
(***************************************************************************)
C6_HolderCountNeverRegresses ==
    [][(lastOp'.op = "holders" /\ lastOp'.kind = "complete" /\ lastOp'.wrote)
          => Stored(deployments', lastOp'.tx).holderCount
                >= Stored(deployments, lastOp'.tx).holderCount]_vars

(***************************************************************************)
(* C9: when the volume computation of a token runs out of its 15 s budget *)
(* or a log fetch of its volume or holder computation hits the RPC        *)
(* deadline, the token's stored holderCount, volumes and marketCap are    *)
(* left as they were.                                                      *)
(***************************************************************************)
C9_DeadlineLeavesMetrics ==
    [][(lastOp'.op \in {"volume", "holders"} /\ lastOp'.kind \in {"budget", "timeout"})
          => Metrics(Stored(deployments', lastOp'.tx))
                = Metrics(Stored(deployments, lastOp'.tx))]_vars

(***************************************************************************)
(* C10: a refresh that failed (log fetch error, dropped log chunk, market *)
(* cap lookup failure) overwrites no stored holderCount, volume or        *)
(* marketCap with zero or with a lower value.                              *)
(***************************************************************************)
C10_FailureNeverLowers ==
    [][(lastOp'.op \in {"volume", "holders"}
          /\ (lastOp'.kind \in {"error", "dropped", "throttled"} \/ ~lastOp'.mcOk))
          => \A k \in 1..Len(Metrics(Stored(deployments, lastOp'.tx))) :
                Metrics(Stored(deployments', lastOp'.tx))[k]
                   >= Metrics(Stored(deployments, lastOp'.tx))[k]]_vars
(***************************************************************************)
(* C11: in catch-up mode every eligible deployment without enrichment data *)
(* (no lastHolderCheck, empty holderCountHistory) has a strictly higher    *)
(* priority than every deployment with data, and stands before it in the   *)
(* sorted selection order.                                                 *)
(***************************************************************************)
C11_BacklogFirst ==
    LET noData(d) == d.lastHolderCheck = 0 /\ d.samples = 0
    IN (sel.done /\ sel.mode) =>
          \A i, j \in 1..Len(sel.order) :
             (noData(sel.order[i]) /\ ~noData(sel.order[j]))
                => (sel.order[i].priority > sel.order[j].priority /\ i < j)

\* a catch-up selection over several never-enriched rows and several rows
\* with data, among them a stale one and one in its cooldown
C11_Witness ==
    LET noData(d) == d.lastHolderCheck = 0 /\ d.samples = 0
    IN /\ sel.done /\ sel.mode
       /\ Cardinality({i \in 1..Len(sel.order) : noData(sel.order[i])}) >= 2
       /\ \E j \in 1..Len(sel.order) :
             /\ ~noData(sel.order[j])
             /\ sel.order[j].priority > 20000
       /\ \E j \in 1..Len(sel.order) :
             /\ ~noData(sel.order[j])
             /\ sel.order[j].priority < 0
(***************************************************************************)
(* C12: a deployment younger than 5 minutes is never marked isPruned,      *)
(* whatever its holderCount: no step of updateHolderCounts (eligibility    *)
(* filter, holder refresh) sets isPruned on a deployment whose age is      *)
(* below 300 s.                                                            *)
(***************************************************************************)
C12_YoungNeverPruned ==
    [][\A i \in 1..Len(deployments) :
          (~deployments[i].isPruned /\ deployments'[i].isPruned)
             => now' - deployments'[i].timestamp >= 300]_vars

\* a deployment 200 s old with at most 5 holders has passed the filter and
\* a holder refresh has written its count
C12_Witness ==
    /\ sel.done
    /\ lastOp.op = "holders" /\ lastOp.wrote
    /\ now - Stored(deployments, lastOp.tx).timestamp < 300
    /\ Stored(deployments, lastOp.tx).holderCount <= 5
    /\ Stored(deployments, lastOp.tx).lastHolderCheck = sel.ts
    /\ ~Stored(deployments, lastOp.tx).isPruned
(***************************************************************************)
(* C13: once a deployment is stored with a tokenAddress, no later          *)
(* operation (holder refresh, volume refresh, dev-sell check, dev-transfer *)
(* check, prune marking, repeated extraction of its transaction) changes   *)
(* that deployment's tokenAddress.                                         *)
(***************************************************************************)
C13_TokenAddressImmutable ==
    [][\A i \in 1..Len(deployments) : \A j \in 1..Len(deployments') :
          (deployments[i].tokenAddress # NoAddress
             /\ deployments'[j].txHash = deployments[i].txHash)
             => deployments'[j].tokenAddress = deployments[i].tokenAddress]_vars

\* a deployment with a token address that the dev-sell check, the
\* dev-transfer check, the volume refresh and the holder refresh have all
\* written
C13_Witness ==
    /\ lastOp.op = "holders" /\ lastOp.wrote
    /\ Stored(deployments, lastOp.tx).tokenAddress # NoAddress
    /\ Stored(deployments, lastOp.tx).devSold
    /\ Stored(deployments, lastOp.tx).devTransferCount = 1
    /\ Stored(deployments, lastOp.tx).lastHolderCheck = sel.ts
    /\ Len(Stored(deployments, lastOp.tx).volumeHistory) > 0
    /\ Last(Stored(deployments, lastOp.tx).volumeHistory).timestamp = sel.ts
(***************************************************************************)
(* C14: a stored deployment is never removed: every txHash of the store is *)
(* still in the store after any extraction or field update.                *)
(***************************************************************************)
C14_NeverRemoved ==
    [][{deployments[i].txHash : i \in 1..Len(deployments)}
          \subseteq {deployments'[j].txHash : j \in 1..Len(deployments')}]_vars
(***************************************************************************)
(* C15: holderCountHistory never has more than 10 entries and              *)
(* volumeHistory never more than 30; a refresh that records a sample       *)
(* appends it as the last element of the stored history and drops the      *)
(* oldest element only when the cap is exceeded, leaving the other entries *)
(* unchanged and in their order.                                           *)
(***************************************************************************)
C15_HistoriesAppendOnly ==
    [][\A i \in 1..Len(deployments) :
          LET h == deployments[i].holderCountHistory
              h2 == deployments'[i].holderCountHistory
              v == deployments[i].volumeHistory
              v2 == deployments'[i].volumeHistory
          IN /\ Len(h2) <= 10 /\ Len(v2) <= 30
             /\ \/ h2 = h
                \/ /\ Len(h2) > 0
                   /\ h2 = IF Len(h) + 1 > 10 THEN Tail(Append(h, Last(h2)))
                           ELSE Append(h, Last(h2))
             /\ \/ v2 = v
                \/ /\ Len(v2) > 0
                   /\ v2 = IF Len(v) + 1 > 30 THEN Tail(Append(v, Last(v2)))
                           ELSE Append(v, Last(v2))]_vars
(***************************************************************************)
(* C16: the checkpoint keeps both of its fields: once catch-up mode has    *)
(* been auto-disabled, every later write of the checkpoint records         *)
(* catchUpComplete = true, so that a restart reads it back and starts in   *)
(* steady-state mode.                                                      *)
(***************************************************************************)
C16_CheckpointKeepsCatchUp ==
    [][(~CATCH_UP_MODE /\ savedState' # savedState)
          => savedState'.catchUpComplete = BoolField(TRUE)]_vars
C18_NextCycleStarts ==
    \A r \in 1..(MaxRuns - 1) :
       (isMonitoring /\ loopPc = "racing" /\ loopRun = r) ~> (loopRun = r + 1)

\* a third cycle has started after a cycle that timed out and a cycle whose
\* getBlockNumber or scan ended it
C18_Witness ==
    /\ isMonitoring /\ loopPc = "racing" /\ loopRun = 3
    /\ runs[1].timedOut
    /\ runs[2].pc = "done" /\ ~runs[2].timedOut

(***************************************************************************)
(* C19: a throttling error (429, rate limit, quota, compute units) raised *)
(* by a ledger backend is never thrown by smartRpcCall / smartGetLogs to  *)
(* the caller: backoff and tier fallback absorb it inside the gateway.    *)
(***************************************************************************)
C19_ThrottlingAbsorbed ==
    ~(gw.status = "thrown" /\ isRateLimit(gw.lastOutcome))


(***************************************************************************)
(* C20: lastCheckedBlock is advanced to a block B only if, in that cycle, *)
(* the log fetches for every block from the cycle's fromBlock up to B     *)
(* completed successfully; a log chunk that failed, timed out or ran out  *)
(* of retries keeps the checkpoint from moving past it.                    *)
(***************************************************************************)
C20_CheckpointBehindFetchedLogs ==
    [][\A r \in 1..Len(runs) :
          (runs[r].pc = "commit" /\ runs'[r].pc = "saving")
             => (runs[r].fromBlock..lastCheckedBlock')
                   \subseteq (runs[r].events \cap runs[r].logs)]_vars


(***************************************************************************)
(* C21: a logical gateway call is first attempted on the cheap tier; the  *)
(* expensive tier is attempted only after the cheap tier signalled        *)
(* throttling and only with a paid key, and at most once per logical      *)
(* call; a call that succeeded on neither tier ends with a failure.       *)
(***************************************************************************)
C21_CheapFirstPaidOnce ==
    [][ /\ (gw'.freeAttempts + gw'.paidAttempts = 1) => gw'.freeAttempts = 1
        /\ (gw.tier = "free" /\ gw'.tier = "paid")
              => (isRateLimit(gw'.lastOutcome) /\ paidKey)
        /\ gw'.paidAttempts <= 1
        /\ (Direct(gw') /\ gw'.status = "returned") => gw'.lastOutcome = "ok"
        /\ (Direct(gw') /\ gw'.lastOutcome \notin {"ok", "none"}
              /\ gw'.status # "running") => gw'.status = "thrown" ]_vars


(***************************************************************************)
(* C22: every getLogs request sent to the cheap tier spans at most        *)
(* FREE_TIER_MAX_BLOCK_RANGE (10) blocks: a requested range of more than  *)
(* 10 blocks is split into chunks, never sent as one call.                 *)
(***************************************************************************)
C22_CheapRequestsWithinRange ==
    \A q \in gw.sent :
       q[1] = "free" => q[3] - q[2] + 1 <= FREE_TIER_MAX_BLOCK_RANGE


(***************************************************************************)
(* C23: the delay waited before a retry after throttling grows            *)
(* exponentially with the number of consecutive throttles (a base delay   *)
(* times a power of two) and never exceeds a fixed cap.                    *)
(***************************************************************************)
C23_BackoffExponentialCapped ==
    gw.lastDelay # 0 =>
       /\ gw.lastDelay <= 10000
       /\ \E base \in {1000, 2000}, cap \in {5000, 10000}, attempt \in 0..4 :
             gw.lastDelay = Min(base * 2^attempt, cap)


(***************************************************************************)
(* C24: no two stored deployments share the same resolved tokenAddress,   *)
(* also when extractions of different transactions interleave (a manual   *)
(* backfill running while a polling cycle extracts): the token-address    *)
(* duplicate check and the insert behave as one step.                      *)
(***************************************************************************)
C24_UniqueTokenAddress ==
    \A i, j \in 1..Len(deployments) :
        (deployments[i].tokenAddress # NoAddress
           /\ deployments[i].tokenAddress = deployments[j].tokenAddress) => i = j


(***************************************************************************)
(* C25: whenever the scheduler meets a not yet pruned deployment (with a  *)
(* token address) that is older than 1 hour and has holderCount <= 5, it  *)
(* marks it isPruned in the store, whatever its stored volume is.         *)
(***************************************************************************)
C25_OldSmallMarkedPruned ==
    [][cycles' = cycles + 1 =>
          \A i \in 1..Len(deployments) :
             (/\ deployments[i].tokenAddress # NoAddress
              /\ ~deployments[i].isPruned
              /\ now - deployments[i].timestamp > HOUR
              /\ deployments[i].holderCount <= 5)
                => deployments'[i].isPruned]_vars


(***************************************************************************)
(* C26: isPruned is terminal: once a deployment's isPruned is true no     *)
(* operation sets it back to false, and a cycle that starts afterwards    *)
(* leaves the deployment out of its selection.                             *)
(***************************************************************************)
C26_PrunedIsTerminal ==
    [][\A i \in 1..Len(deployments) :
          deployments[i].isPruned =>
             /\ \A j \in 1..Len(deployments') :
                   deployments'[j].txHash = deployments[i].txHash
                      => deployments'[j].isPruned
             /\ (~sel.done /\ sel'.done) =>
                   /\ \A k \in 1..Len(sel'.order) :
                         sel'.order[k].txHash # deployments[i].txHash
                   /\ \A k \in 1..Len(sel'.toUpdate) :
                         sel'.toUpdate[k].txHash # deployments[i].txHash
                   /\ \A k \in 1..Len(sel'.volume) :
                         sel'.volume[k].deployment.txHash # deployments[i].txHash]_vars

\* a cycle has refreshed a token of a store whose other deployment was pruned
\* earlier and has since been touched by a dev check
C26_Witness ==
    /\ sel.done
    /\ lastOp.op = "holders" /\ lastOp.wrote
    /\ Len(deployments) = 2
    /\ deployments[2].isPruned /\ deployments[2].devSold
    /\ deployments[2].txHash \in sel.pruned
    /\ deployments[1].txHash = lastOp.tx


(***************************************************************************)
(* C27: the holder-refresh selection is ordered by descending priority    *)
(* score, and among tokens with equal score the more recently discovered  *)
(* token (the one nearer the head of the store) comes first.               *)
(***************************************************************************)
C27_OrderedByScoreThenRecency ==
    sel.done =>
       LET pos(h) == CHOOSE i \in 1..Len(deployments) : deployments[i].txHash = h
       IN \A i, j \in 1..Len(sel.order) :
             i < j =>
                /\ sel.order[i].priority >= sel.order[j].priority
                /\ sel.order[i].priority = sel.order[j].priority
                      => pos(sel.order[i].txHash) <= pos(sel.order[j].txHash)


(***************************************************************************)
(* C28: within one cycle checkTokenCreatedEvents scans the trailing       *)
(* window [max(fromBlock, toBlock - 100), toBlock] first; a request for   *)
(* an older block of [fromBlock, toBlock] is sent only after the fetch of *)
(* the window has ended and its events were processed.                     *)
(***************************************************************************)
C28_RecentWindowFirst ==
    \A r \in 1..Len(runs) :
       LET run == runs[r]
           window == Max(run.fromBlock, run.toBlock - 100)
       IN /\ run.fetch = "recent" =>
                /\ gw.fromBlock = window /\ gw.toBlock = run.toBlock
                /\ \A q \in gw.sent : q[2] >= window
          /\ run.fetch = "older" =>
                /\ gw.fromBlock = run.fromBlock /\ gw.toBlock = window - 1
                /\ \A q \in gw.sent : q[3] < window
          /\ run.fetch = "again" => \A q \in gw.sent : q[2] >= window

\* a cycle with a backlog: the window's logs are in, part of them lost, and
\* the older blocks have been requested
C28_Witness ==
    \E r \in 1..Len(runs) :
       /\ runs[r].fetch = "older"
       /\ runs[r].toBlock - runs[r].fromBlock > 100
       /\ runs[r].events # {}
       /\ runs[r].toBlock \in runs[r].events
       /\ runs[r].toBlock - 50 \notin runs[r].events
       /\ gw.status = "returned"
       /\ gw.sent # {}


(***************************************************************************)
(* C29: for every deployment the runner score computed by the backend     *)
(* scheduler equals the runner score the dashboard's calculateRunnerScore *)
(* computes for display: volume24h*0.4 + min(growthPercent/10, 10)*0.4 +  *)
(* min(absoluteGrowth, 50)*0.2, growth taken from the last two holder     *)
(* history entries.                                                        *)
(***************************************************************************)
C29_ScoresAgree ==
    \A i \in 1..Len(deployments) :
       ScoreNum(deployments[i]) * calculateRunnerScoreDen(deployments[i])
          = calculateRunnerScoreNum(deployments[i]) * ScoreDen(deployments[i])


(***************************************************************************)
(* C30: when precise tracing is unavailable (no trace endpoint) or yields  *)
(* zero volume (also after running out of time), the volumes that          *)
(* calculateActualVolume returns, and the volume loop stores, are the      *)
(* estimate of 0.01 ETH per transfer event of each window, not zeros.     *)
(***************************************************************************)
C30_EstimateWhenTraceUnavailable ==
    (/\ lastOp.op = "volume"
     /\ lastOp.kind \in {"notrace", "fallback"}
     /\ lastOp.wrote)
    => \E i \in 1..Len(deployments) :
          /\ deployments[i].txHash = lastOp.tx
          /\ deployments[i].volume1h = TransferEstimate.volume1h
          /\ deployments[i].volume6h = TransferEstimate.volume6h
          /\ deployments[i].volume24h = TransferEstimate.volume24h
          /\ deployments[i].volume7d = TransferEstimate.volume7d


(***************************************************************************)
(* C31: in catch-up mode every cycle of updateHolderCounts whose total    *)
(* selected work (toUpdate plus tokensNeedingVolumeUpdate) is at most 2,  *)
(* a cycle without any eligible token included, counts as a low-work      *)
(* cycle; the second consecutive one switches catch-up mode off           *)
(* (POLL_INTERVAL 90 s, catchUpComplete saved); a cycle with more work    *)
(* resets the count.                                                       *)
(***************************************************************************)
C31_LowWorkCyclesEndCatchUp ==
    [][(cycles' = cycles + 1 /\ CATCH_UP_MODE)
       => LET totalWork == Len(sel'.toUpdate) + Len(sel'.volume)
          IN IF totalWork > 2
             THEN catchUpLowWorkCycles' = 0 /\ CATCH_UP_MODE'
             ELSE IF catchUpLowWorkCycles + 1 >= CATCH_UP_AUTO_DISABLE_THRESHOLD
                  THEN /\ ~CATCH_UP_MODE'
                       /\ POLL_INTERVAL' = SlowPoll
                       /\ savedState'.catchUpComplete = BoolField(TRUE)
                  ELSE /\ CATCH_UP_MODE'
                       /\ catchUpLowWorkCycles' = catchUpLowWorkCycles + 1]_vars


(***************************************************************************)
(* C32: a token with data that the selection scores is classified stale   *)
(* exactly when at least 2 x POLL_INTERVAL of wall-clock time (0.2 s in    *)
(* catch-up mode, 180 s in steady state) has passed since its last holder *)
(* check.  Times are in seconds, POLL_INTERVAL in milliseconds.           *)
(***************************************************************************)
C32_StaleAfterTwoPollIntervals ==
    sel.done =>
       \A i \in 1..Len(deployments) :
          LET d == deployments[i]
          IN ((\E k \in 1..Len(sel.order) : sel.order[k].txHash = d.txHash)
              /\ HasData(d))
             => (IsStale(d, sel.ts, POLL_INTERVAL)
                   <=> 1000 * (sel.ts - LastCheckOf(d)) >= 2 * POLL_INTERVAL)


(***************************************************************************)
(* C33: lastCheckedBlock never decreases: every write to it, in memory    *)
(* and in the saved checkpoint, stores a value greater than or equal to   *)
(* the one stored before, under any interleaving of cycles, a cycle that  *)
(* keeps running after its timeout included.                               *)
(***************************************************************************)
C33_CheckpointNeverDecreases ==
    [][/\ lastCheckedBlock' >= lastCheckedBlock
       /\ savedState'.lastCheckedBlock >= savedState.lastCheckedBlock]_vars


(***************************************************************************)
(* C34: the cycles scan contiguous ranges with the transaction backstop:  *)
(* a cycle's range starts at lastCheckedBlock + 1, holds at most 2000     *)
(* blocks and ends at or before the chain head the cycle read; the cycle  *)
(* sets lastCheckedBlock to the last block of its range; and every block  *)
(* from the first block any cycle scanned up to lastCheckedBlock lies in  *)
(* the range of a cycle that has finished its scan.                       *)
(***************************************************************************)
C34_ContiguousRanges ==
    [][/\ \A r \in 1..Len(runs) :
            /\ (runs[r].pc = "head" /\ runs'[r].pc = "scan")
               => /\ runs'[r].fromBlock = lastCheckedBlock + 1
                  /\ runs'[r].toBlock = chainHead
                  /\ runs'[r].actualToBlock - runs'[r].fromBlock + 1 <= MAX_BLOCK_RANGE
                  /\ runs'[r].actualToBlock <= runs'[r].toBlock
            /\ (runs[r].pc = "commit" /\ runs'[r].pc = "saving")
               => lastCheckedBlock' = runs[r].actualToBlock
       /\ LET scanned == {r \in 1..Len(runs') :
                             /\ runs'[r].pc \in {"commit", "saving", "done"}
                             /\ runs'[r].fromBlock # 0}
              Covered(b) == \E q \in scanned :
                               runs'[q].fromBlock <= b /\ b <= runs'[q].actualToBlock
          \* the ranges are intervals: they cover every block from the first
          \* scanned block to lastCheckedBlock exactly when the block after
          \* the end of each range below lastCheckedBlock is covered
          IN \A r \in scanned :
                runs'[r].actualToBlock < lastCheckedBlock'
                   => Covered(runs'[r].actualToBlock + 1)
      ]_vars

C34_Witness ==
    /\ Len(runs) >= 2
    /\ runs[1].pc = "done" /\ ~runs[1].timedOut
    /\ runs[2].pc = "saving" /\ ~runs[2].timedOut
    /\ runs[1].actualToBlock = runs[1].fromBlock + MAX_BLOCK_RANGE - 1
    /\ runs[1].actualToBlock < runs[1].toBlock
    /\ runs[2].fromBlock = runs[1].actualToBlock + 1
    /\ lastCheckedBlock = runs[2].actualToBlock
    /\ lastCheckedBlock = chainHead


(***************************************************************************)
(* C35: the holder-refresh selection (toUpdate) of a cycle never holds    *)
(* the same deployment twice, in catch-up mode and in steady state, for   *)
(* any number of eligible tokens.                                          *)
(***************************************************************************)
C35_SelectionWithoutDuplicates ==
    sel.done =>
       \A i, j \in 1..Len(sel.toUpdate) :
          sel.toUpdate[i].txHash = sel.toUpdate[j].txHash => i = j


(***************************************************************************)
(* C36: every deployment that passes the eligibility filter (validTokens) *)
(* gets a priority in that cycle and is a candidate for selection: none   *)
(* is lost between the tokens that get the recent-volume pre-check and    *)
(* the remaining tokens, for any number of eligible tokens, in both modes.*)
(***************************************************************************)
C36_EveryValidTokenScored ==
    sel.done =>
       \A i \in 1..Len(deployments) :
          IsValidToken(deployments[i], sel.ts)
             => \E k \in 1..Len(sel.order) :
                   sel.order[k].txHash = deployments[i].txHash


(***************************************************************************)
(* C37: a newly extracted deployment (one initial holder-history entry,   *)
(* never refreshed) that the cycle scores passes the cooldown filter in   *)
(* the cycles right after its discovery and so is selected for holder     *)
(* refresh whenever the scored tokens fit into maxTokens: the chill-mode  *)
(* cooldown excludes only tokens that were refreshed before.              *)
(***************************************************************************)
C37_NewDeploymentEligible ==
    [][(cycles' = cycles + 1 /\ Len(sel'.order) <= sel'.maxTokens)
       => \A i \in 1..Len(deployments) :
             LET d == deployments[i]
             IN (/\ Len(d.holderCountHistory) = 1
                 /\ d.lastHolderCheck = 0
                 /\ \E k \in 1..Len(sel'.order) : sel'.order[k].txHash = d.txHash)
                => \E j \in 1..Len(sel'.toUpdate) : sel'.toUpdate[j].txHash = d.txHash]_vars


(***************************************************************************)
(* C38: a holder refresh that does not fetch a market cap (the cycle's    *)
(* copy of the deployment has a market cap and the holder count did not   *)
(* change) leaves the stored marketCap as it is; in particular it keeps   *)
(* the marketCap that the volume refresh of the same token wrote earlier  *)
(* in the cycle.                                                           *)
(***************************************************************************)
C38_HolderRefreshKeepsMarketCap ==
    [][(/\ cyc.pc = "holders"
        /\ lastOp'.op = "holders"
        /\ lastOp'.wrote
        /\ sel.toUpdate[cyc.i].marketCap # 0
        /\ Stored(deployments', lastOp'.tx).holderCount
              = sel.toUpdate[cyc.i].holderCount)
       => Stored(deployments', lastOp'.tx).marketCap
             = Stored(deployments, lastOp'.tx).marketCap]_vars


C40_AttemptsBounded ==
    Direct(gw) =>
       /\ gw.freeAttempts <= RPC_RETRIES + 1
       /\ gw.paidAttempts <= RPC_RETRIES
       /\ gw.status = "running"
             => gw.freeAttempts + gw.paidAttempts < 2 * RPC_RETRIES + 1

C40_Witness ==
    /\ Direct(gw)
    /\ gw.freeAttempts = RPC_RETRIES + 1
    /\ gw.paidAttempts = RPC_RETRIES
    /\ gw.status = "thrown"
    /\ isRateLimit(gw.lastOutcome)

====
